---- MODULE Spec2Model ----
(***************************************************************************)
(* A model of zincio: the Zinc tokenizer (zinc_tokenizer.py), the          *)
(* recursive-descent parser (zinc_parser.py), the GridBuilder and the      *)
(* emitter (grid.py).                                                      *)
(*                                                                         *)
(* Text is a sequence of characters; a character is a one-character        *)
(* string, except for the stand-ins "EOF" (the tokenizer's end sentinel),  *)
(* "U0060" (the backtick), "U00A0", "U0080" and "U00B0" (characters        *)
(* outside ASCII).  An exception is the name of its Python class; "none"   *)
(* means nothing was raised and "Hang" stands for a loop that never ends.  *)
(***************************************************************************)
EXTENDS Integers, Sequences, FiniteSets, TLC

\* ------------------------------------------------------------------------
\* Characters (zinc_tokenizer.py, module level)
\* ------------------------------------------------------------------------

EOF == "EOF"

BACKTICK == "U0060"

LowerLetters ==
    {"a", "b", "c", "d", "e", "f", "g", "h", "i", "j", "k", "l", "m",
     "n", "o", "p", "q", "r", "s", "t", "u", "v", "w", "x", "y", "z"}

UpperLetters ==
    {"A", "B", "C", "D", "E", "F", "G", "H", "I", "J", "K", "L", "M",
     "N", "O", "P", "Q", "R", "S", "T", "U", "V", "W", "X", "Y", "Z"}

Digits == {"0", "1", "2", "3", "4", "5", "6", "7", "8", "9"}

HexDigits == Digits \cup {"a", "b", "c", "d", "e", "f", "A", "B", "C", "D", "E", "F"}

\* chr(n) for n < 128 is AsciiTable[n + 1]; control characters are stand-ins
AsciiTable ==
    <<
      "U0000", "U0001", "U0002", "U0003", "U0004", "U0005", "U0006", "U0007",
      "U0008", "\t", "\n", "U000B", "\f", "\r", "U000E", "U000F",
      "U0010", "U0011", "U0012", "U0013", "U0014", "U0015", "U0016", "U0017",
      "U0018", "U0019", "U001A", "U001B", "U001C", "U001D", "U001E", "U001F",
      " ", "!", "\"", "#", "$", "%", "&", "'",
      "(", ")", "*", "+", ",", "-", ".", "/",
      "0", "1", "2", "3", "4", "5", "6", "7",
      "8", "9", ":", ";", "<", "=", ">", "?",
      "@", "A", "B", "C", "D", "E", "F", "G",
      "H", "I", "J", "K", "L", "M", "N", "O",
      "P", "Q", "R", "S", "T", "U", "V", "W",
      "X", "Y", "Z", "[", "\\", "]", "^", "_",
      "U0060", "a", "b", "c", "d", "e", "f", "g",
      "h", "i", "j", "k", "l", "m", "n", "o",
      "p", "q", "r", "s", "t", "u", "v", "w",
      "x", "y", "z", "{", "|", "}", "~", "U007F"
    >>

\* ord(c); a character outside ASCII other than the three stand-ins is "UFFFD"
Ord(c) ==
    CASE c = "U0080" -> 128
      [] c = "U00A0" -> 160
      [] c = "U00B0" -> 176
      [] c = "UFFFD" -> 65533
      [] OTHER -> (CHOOSE n \in 1..128 : AsciiTable[n] = c) - 1

\* chr(n)
Chr(n) ==
    CASE n < 128 -> AsciiTable[n + 1]
      [] n = 128 -> "U0080"
      [] n = 160 -> "U00A0"
      [] n = 176 -> "U00B0"
      [] OTHER -> "UFFFD"

\* str.isupper() of a one-character string, and of the sentinel 'EOF'
IsUpper(c) == c \in UpperLetters \/ c = EOF

IsLower(c) == c \in LowerLetters

_is_letter(c) == c # EOF /\ (c \in LowerLetters \/ c \in UpperLetters)

_is_digit(c) == c \in Digits

_is_id_start(c) == c # EOF /\ c \in LowerLetters

_is_id_part(c) == _is_letter(c) \/ _is_digit(c) \/ c = "_"

_is_unit(c) == c # EOF /\ (c \in {"%", "$", "/"} \/ Ord(c) > 128)

_is_ref_char(c) == _is_letter(c) \/ _is_digit(c) \/ c \in {"_", ":", "-", ".", "~"}

\* ------------------------------------------------------------------------
\* Tokens (tokens.py)
\* ------------------------------------------------------------------------

Token(ttype, val) == [ttype |-> ttype, val |-> val, unit_index |-> 0]

NumberToken(val, unit_index) == [ttype |-> "NUMBER", val |-> val, unit_index |-> unit_index]

\* Python's None, which _tokenize_time returns when no timezone follows
NoneToken == [ttype |-> "None", val |-> <<>>, unit_index |-> 0]

TokEOF == Token("EOF", <<"E", "O", "F">>)
TokNEWLINE == Token("NEWLINE", <<"\n">>)
TokCOMMA == Token("COMMA", <<",">>)
TokCOLON == Token("COLON", <<":">>)
TokSEMICOLON == Token("SEMICOLON", <<";">>)
TokLBRACKET == Token("LBRACKET", <<"[">>)
TokRBRACKET == Token("RBRACKET", <<"]">>)
TokLBRACE == Token("LBRACE", <<"{">>)
TokRBRACE == Token("RBRACE", <<"}">>)
TokLPAREN == Token("LPAREN", <<"(">>)
TokRPAREN == Token("RPAREN", <<")">>)
TokLT == Token("LT", <<"<">>)
TokGT == Token("GT", <<">">>)
TokARROW == Token("ARROW", <<"-", ">">>)
TokMINUS == Token("MINUS", <<"-">>)
TokEQUALS == Token("EQUALS", <<"=", "=">>)
TokNOTEQUALS == Token("NOTEQUALS", <<"!", "=">>)
TokASSIGN == Token("ASSIGN", <<"=">>)
TokBANG == Token("BANG", <<"!">>)
TokSLASH == Token("SLASH", <<"/">>)

ReservedWords ==
    {<<"N">>, <<"M">>, <<"R">>, <<"N", "A">>, <<"N", "a", "N">>,
     <<"T">>, <<"F">>, <<"I", "N", "F">>}

\* ------------------------------------------------------------------------
\* The character cursor: ZincTokenizer._buf, _cur, _peek, line
\* ------------------------------------------------------------------------

\* the tokenizer over `text`; a read of the stream at offset >= failAt raises
\* (the stream was closed under the reader), failAt > Len(text) never does
NewCursor(text, failAt) ==
    [text |-> text, failAt |-> failAt, pos |-> 0, cur |-> "None", peek |-> "None", line |-> 0,
     failed |-> FALSE]

\* ZincTokenizer._consume without `expected`
Advance(t) ==
    IF t.pos >= t.failAt
    THEN [t EXCEPT !.cur = EOF, !.peek = EOF, !.failed = TRUE]
    ELSE IF t.pos >= Len(t.text)
         THEN [t EXCEPT !.cur = t.peek, !.peek = EOF]
         ELSE [t EXCEPT !.cur = t.peek, !.peek = t.text[t.pos + 1], !.pos = t.pos + 1]

\* the result of a tokenizer routine: the cursor after it, what it returned
\* (a token, or in val the string a helper returned) and what it raised
Res(t, tok, err) == [t |-> t, tok |-> tok, err |-> err]

Raise(t, err) == Res(t, NoneToken, err)

\* ZincTokenizer.__init__
ZincTokenizer(text, failAt) == Advance(Advance(NewCursor(text, failAt)))

ZTE == "ZincTokenizerException"

\* ------------------------------------------------------------------------
\* The tokenizer's routines (zinc_tokenizer.py)
\* ------------------------------------------------------------------------

\* d[key] = val on an insertion-ordered dict: a key already there keeps its place
RECURSIVE DictSet(_, _, _)
DictSet(d, key, val) ==
    IF d = <<>> THEN << <<key, val>> >>
    ELSE IF Head(d)[1] = key THEN << <<key, val>> >> \o Tail(d)
    ELSE <<Head(d)>> \o DictSet(Tail(d), key, val)

DictHas(d, key) == \E i \in 1..Len(d) : d[i][1] = key

DictGet(d, key) == d[CHOOSE i \in 1..Len(d) : d[i][1] = key][2]

\* K applied to the value v: a local variable of the routine
Bind(v, K(_)) == K(v)

\* K applied to the result r of a routine, unless the routine raised
Then(r, K(_)) == IF r.err # "none" THEN r ELSE K(r)

RECURSIVE IdLoop(_, _)
IdLoop(t, s) ==
    IF t.cur # EOF /\ _is_id_part(t.cur)
    THEN IdLoop(Advance(t), Append(s, t.cur))
    ELSE Res(t, Token("ID", s), "none")

_tokenize_id(t) == IdLoop(t, <<>>)

RECURSIVE DecimalLoop(_, _, _)
DecimalLoop(t, s, dots) ==
    IF _is_digit(t.cur) \/ t.cur = "."
    THEN DecimalLoop(Advance(t), Append(s, t.cur), IF t.cur = "." THEN dots + 1 ELSE dots)
    ELSE IF dots > 1
         THEN Raise(t, ZTE)
         ELSE Res(t, Token("str", s), "none")

_consume_decimal_unscientific(t) ==
    IF t.cur = "-"
    THEN DecimalLoop(Advance(t), <<"-">>, 0)
    ELSE DecimalLoop(t, <<>>, 0)

_tokenize_coord(t) ==
    IF t.cur # "C" THEN Raise(t, ZTE) ELSE
    Bind(Advance(t), LAMBDA t1 :
    IF t1.cur # "(" THEN Raise(t1, ZTE) ELSE
    Then(_consume_decimal_unscientific(Advance(t1)), LAMBDA lat :
    IF lat.t.cur # "," THEN Raise(lat.t, ZTE) ELSE
    Bind(Advance(lat.t), LAMBDA t3 :
    Then(_consume_decimal_unscientific(IF t3.cur = " " THEN Advance(t3) ELSE t3), LAMBDA lng :
    IF lng.t.cur # ")" THEN Raise(lng.t, ZTE) ELSE
    Res(Advance(lng.t),
        Token("COORD", <<"C", "(">> \o lat.tok.val \o <<",">> \o lng.tok.val \o <<")">>),
        "none")))))

RECURSIVE LetterLoop(_, _)
LetterLoop(t, s) ==
    IF t.cur # EOF /\ _is_letter(t.cur)
    THEN LetterLoop(Advance(t), Append(s, t.cur))
    ELSE Res(t, Token("str", s), "none")

_tokenize_reserved(t) ==
    Bind(LetterLoop(t, <<>>), LAMBDA r :
    IF r.tok.val \in ReservedWords
    THEN Res(r.t, Token("RESERVED", r.tok.val), "none")
    ELSE Raise(r.t, ZTE))

HexVal(c) ==
    CASE c \in Digits -> Ord(c) - 48
      [] c \in {"a", "b", "c", "d", "e", "f"} -> Ord(c) - 87
      [] c \in {"A", "B", "C", "D", "E", "F"} -> Ord(c) - 55
      [] OTHER -> -1

PyWhitespace == {" ", "\t", "\n", "\r", "\f", "U000B", "U001C", "U001D", "U001E", "U001F", "U00A0"}

RECURSIVE LStrip(_)
LStrip(s) == IF s # <<>> /\ Head(s) \in PyWhitespace THEN LStrip(Tail(s)) ELSE s

RECURSIVE RStrip(_)
RStrip(s) ==
    IF s # <<>> /\ s[Len(s)] \in PyWhitespace THEN RStrip(SubSeq(s, 1, Len(s) - 1)) ELSE s

\* digits with single underscores between them; acc is the value so far and
\* prev whether the previous character was a digit
RECURSIVE HexDigitsVal(_, _, _)
HexDigitsVal(s, acc, prev) ==
    IF s = <<>> THEN (IF prev THEN acc ELSE -1)
    ELSE IF Head(s) \in HexDigits THEN HexDigitsVal(Tail(s), acc * 16 + HexVal(Head(s)), TRUE)
    ELSE IF Head(s) = "_" /\ prev THEN HexDigitsVal(Tail(s), acc, FALSE)
    ELSE -1

\* s without a leading sign
Unsigned(s) == IF s # <<>> /\ Head(s) \in {"+", "-"} THEN Tail(s) ELSE s

\* s without a leading 0x or 0x_
Unprefixed(s) ==
    IF Len(s) >= 2 /\ s[1] = "0" /\ s[2] \in {"x", "X"}
    THEN (IF Len(s) >= 3 /\ s[3] = "_" THEN SubSeq(s, 4, Len(s)) ELSE SubSeq(s, 3, Len(s)))
    ELSE s

\* int(s, base=16) of the four characters after \u: surrounding whitespace, a
\* sign, a 0x prefix and single underscores between digits are accepted; -1
\* stands for ValueError, and so does a negative value, which chr() refuses
IntBase16(s) ==
    Bind(RStrip(LStrip(s)), LAMBDA a :
    Bind(HexDigitsVal(Unprefixed(Unsigned(a)), 0, FALSE), LAMBDA v :
    IF v < 0 THEN -1 ELSE IF a # <<>> /\ Head(a) = "-" /\ v > 0 THEN -1 ELSE v))

EscapeChars == {"b", "f", "n", "r", "t", "\"", "$", "'", BACKTICK, "\\"}

\* a character joined into a str: the sentinel 'EOF' joins as its three letters
CharText(x) == IF x = EOF THEN <<"E", "O", "F">> ELSE <<x>>

\* _escape dropping the backslash of a pass-through escape
_escape_Unescaped(t) ==
    IF t.cur # "\\" THEN Raise(t, ZTE) ELSE
    Bind(Advance(t), LAMBDA t1 :
    IF t1.cur \in EscapeChars
    THEN Res(Advance(t1), Token("str", <<t1.cur>>), "none")
    ELSE Raise(t1, ZTE))

\* ZincTokenizer._escape: tok.val is the string it returns
_escape(t) ==
    IF t.cur # "\\" THEN Raise(t, ZTE) ELSE
    Bind(Advance(t), LAMBDA t1 :
    IF t1.cur \in EscapeChars
    THEN Res(Advance(t1), Token("str", <<"\\", t1.cur>>), "none")
    ELSE IF t1.cur = "u"
    THEN Bind(Advance(t1), LAMBDA a :
         Bind(Advance(a), LAMBDA b :
         Bind(Advance(b), LAMBDA c :
         Bind(Advance(c), LAMBDA d :
         Bind(IntBase16(CharText(a.cur) \o CharText(b.cur) \o CharText(c.cur) \o CharText(d.cur)),
              LAMBDA v :
         IF v < 0 THEN Raise(Advance(d), ZTE)
         ELSE Res(Advance(d), Token("str", <<Chr(v)>>), "none"))))))
    ELSE Raise(t1, ZTE))

\* a string loop that raises on a line terminator before the closing quote
RECURSIVE StrLoop_NewlineError(_, _)
StrLoop_NewlineError(t, s) ==
    IF t.cur = EOF \/ t.cur \in {"\n", "\r"} THEN Raise(t, ZTE)
    ELSE IF t.cur = "\"" THEN Res(Advance(t), Token("STRING", s), "none")
    ELSE IF t.cur = "\\"
         THEN Then(_escape(t), LAMBDA e : StrLoop_NewlineError(e.t, s \o e.tok.val))
    ELSE StrLoop_NewlineError(Advance(t), Append(s, t.cur))

RECURSIVE StrLoop(_, _)
StrLoop(t, s) ==
    IF t.cur = EOF THEN Raise(t, ZTE)
    ELSE IF t.cur = "\"" THEN Res(Advance(t), Token("STRING", s), "none")
    ELSE IF t.cur = "\\"
         THEN Then(_escape(t), LAMBDA e : StrLoop(e.t, s \o e.tok.val))
    ELSE StrLoop(Advance(t), Append(s, t.cur))

_tokenize_str(t) ==
    IF t.cur # "\"" THEN Raise(t, ZTE) ELSE StrLoop(Advance(t), <<>>)

RECURSIVE RefLoop(_, _)
RefLoop(t, s) ==
    IF _is_ref_char(t.cur) THEN RefLoop(Advance(t), Append(s, t.cur))
    ELSE IF t.cur = " " /\ t.peek = "\""
         THEN Then(_tokenize_str(Advance(t)), LAMBDA d :
              RefLoop(d.t, s \o <<" ", "\"">> \o d.tok.val \o <<"\"">>))
    ELSE Res(t, Token("REF", s), "none")

_tokenize_ref(t) ==
    IF t.cur # "@" THEN Raise(t, ZTE) ELSE RefLoop(Advance(t), <<>>)

UriEscapeChars == {":", "/", "?", "#", "[", "]", "@", "\\", "&", "=", ";"}

RECURSIVE UriLoop(_, _)
UriLoop(t, s) ==
    IF t.cur = BACKTICK THEN Res(Advance(t), Token("URI", s), "none")
    ELSE IF t.cur = EOF \/ t.cur = "\n" THEN Raise(t, ZTE)
    ELSE IF t.cur = "\\"
         THEN IF t.peek \in UriEscapeChars
              THEN Raise(t, "AttributeError")  \* s._consume() on a list
              ELSE Then(_escape(t), LAMBDA e : UriLoop(e.t, s \o e.tok.val))
    ELSE UriLoop(Advance(t), Append(s, t.cur))

_tokenize_uri(t) ==
    IF t.cur # BACKTICK THEN Raise(t, ZTE) ELSE UriLoop(Advance(t), <<>>)

RECURSIVE HexLoop(_)
HexLoop(t) ==
    IF t.cur \in HexDigits THEN HexLoop(Advance(t))
    ELSE IF t.cur = "_" THEN Raise(t, "Hang")   \* `continue` without consuming
    ELSE Raise(t, "TypeError")                  \* Token(..., base=16)

_tokenize_hex(t) ==
    IF t.cur # "0" THEN Raise(t, ZTE) ELSE
    Bind(Advance(t), LAMBDA t1 :
    IF t1.cur # "x" THEN Raise(t1, ZTE) ELSE HexLoop(Advance(t1)))

\* str.endswith('GMT') of the timezone gathered so far
EndsWithGMT(tz) ==
    Len(tz) >= 3 /\ SubSeq(tz, Len(tz) - 2, Len(tz)) = <<"G", "M", "T">>

RECURSIVE TzDigits(_, _)
TzDigits(t, tz) ==
    IF _is_digit(t.cur) THEN TzDigits(Advance(t), Append(tz, t.cur))
    ELSE Res(t, Token("str", tz), "none")

RECURSIVE TzLoop(_, _)
TzLoop(t, tz) ==
    IF _is_id_part(t.cur)
    THEN Bind(Advance(t), LAMBDA t1 :
         IF t1.cur \in {"+", "-"} /\ EndsWithGMT(Append(tz, t.cur))
         THEN Bind(TzDigits(Advance(t1), Append(Append(tz, t.cur), t1.cur)), LAMBDA d :
              TzLoop(d.t, d.tok.val))
         ELSE TzLoop(t1, Append(tz, t.cur)))
    ELSE Res(t, Token("str", tz), "none")

_consume_timezone(t) ==
    IF t.cur # " " \/ ~IsUpper(t.peek)
    THEN Raise(t, ZTE)
    ELSE TzLoop(Advance(t), <<" ">>)

\* returns None when no timezone word follows
_tokenize_time(t, s, colons) ==
    IF t.peek # EOF /\ IsUpper(t.peek)
    THEN Then(_consume_timezone(t), LAMBDA tz :
         Res(tz.t,
             Token("TIME", (IF s # <<>> /\ s[2] = ":" THEN <<"0">> \o s ELSE s) \o tz.tok.val),
             "none"))
    ELSE Res(t, NoneToken, "none")

_tokenize_datetime(t, s) ==
    IF t.peek # EOF /\ IsUpper(t.peek)
    THEN Then(_consume_timezone(t), LAMBDA tz :
         Res(tz.t, Token("DATETIME", s \o tz.tok.val), "none"))
    ELSE Res(t, Token("DATETIME", s), "none")

\* the scanning loop of _tokenize_num; n holds s, colons, dashes, unit_index, exp
RECURSIVE NumLoop(_, _)
NumLoop(t, n) ==
    LET c == t.cur
        take(m) == NumLoop(Advance(t), [m EXCEPT !.s = Append(n.s, c)])
        stop == [t |-> t, n |-> n]
        unit == IF n.unit_index = 0 THEN [n EXCEPT !.unit_index = Len(n.s)] ELSE n
    IN
    IF c = EOF THEN stop
    ELSE IF _is_digit(c) THEN take(n)
    ELSE IF n.exp /\ c \in {"+", "-"} THEN take(n)
    ELSE IF c = "-" THEN take([n EXCEPT !.dashes = n.dashes + 1])
    ELSE IF c = ":" /\ _is_digit(t.peek) THEN take([n EXCEPT !.colons = n.colons + 1])
    ELSE IF (n.exp \/ n.colons >= 1) /\ c = "+" THEN take(n)
    ELSE IF c = "." THEN (IF ~_is_digit(t.peek) THEN stop ELSE take(n))
    ELSE IF c \in {"e", "E"} /\ (t.peek \in {"-", "+"} \/ _is_digit(t.peek))
         THEN take([n EXCEPT !.exp = TRUE])
    ELSE IF _is_letter(c) \/ _is_unit(c) THEN take(unit)
    ELSE IF c = "_"
         THEN IF n.unit_index = 0 /\ _is_digit(t.peek)
              THEN NumLoop(Advance(t), n)
              ELSE take(unit)
    ELSE stop

\* the token _tokenize_num makes of what its loop gathered
NumToken(t, n) ==
    IF n.dashes = 2 /\ n.colons = 0 THEN Res(t, Token("DATE", n.s), "none")
    ELSE IF n.dashes = 0 /\ n.colons >= 1 THEN _tokenize_time(t, n.s, 1)
    ELSE IF n.dashes >= 2 THEN _tokenize_datetime(t, n.s)
    ELSE Res(t, NumberToken(n.s, n.unit_index), "none")

_tokenize_num(t) ==
    Then(IF t.cur = "0" /\ t.peek = "x" THEN _tokenize_hex(t) ELSE Res(t, NoneToken, "none"),
         LAMBDA hex :
    Bind(NumLoop(hex.t, [s |-> <<>>, colons |-> 0, dashes |-> 0, unit_index |-> 0, exp |-> FALSE]),
         LAMBDA r : NumToken(r.t, r.n)))

\* the token of a symbol that does not depend on the character after it
SymbolTokens ==
    << <<",", TokCOMMA>>, <<":", TokCOLON>>, <<";", TokSEMICOLON>>, <<"[", TokLBRACKET>>,
       <<"]", TokRBRACKET>>, <<"{", TokLBRACE>>, <<"}", TokRBRACE>>, <<"(", TokLPAREN>>,
       <<")", TokRPAREN>>, <<"/", TokSLASH>> >>

_tokenize_symbol(t) ==
    Bind(t.cur, LAMBDA c :
    Bind(Advance(t), LAMBDA t1 :
    IF DictHas(SymbolTokens, c) THEN Res(t1, DictGet(SymbolTokens, c), "none")
    ELSE IF c = "<" THEN (IF t1.cur \in {"<", "="}
                          THEN Raise(t1, "AttributeError")   \* self.consume
                          ELSE Res(t1, TokLT, "none"))
    ELSE IF c = ">" THEN (IF t1.cur \in {">", "="}
                          THEN Raise(t1, "AttributeError")   \* self.consume
                          ELSE Res(t1, TokGT, "none"))
    ELSE IF c = "-" THEN (IF t1.cur = ">" THEN Res(Advance(t1), TokARROW, "none")
                          ELSE Res(t1, TokMINUS, "none"))
    ELSE IF c = "=" THEN (IF t1.cur = "=" THEN Res(Advance(t1), TokEQUALS, "none")
                          ELSE Res(t1, TokASSIGN, "none"))
    ELSE IF c = "!" THEN (IF t1.cur = "=" THEN Res(Advance(t1), TokNOTEQUALS, "none")
                          ELSE Res(t1, TokBANG, "none"))
    ELSE Raise(t1, ZTE)))

RECURSIVE SkipWhitespace(_)
SkipWhitespace(t) ==
    IF t.cur \in {" ", "\t", "U00A0"} THEN SkipWhitespace(Advance(t)) ELSE t

\* a newline for each of \r and \n, also when they come as \r\n
NewlineToken_PerChar(t) ==
    Bind(Advance(t), LAMBDA t2 :
    Res([t2 EXCEPT !.line = t2.line + 1], TokNEWLINE, "none"))

\* a newline: \r\n counts as one
NewlineToken(t) ==
    Bind(Advance(IF t.cur = "\r" /\ t.peek = "\n" THEN Advance(t) ELSE t), LAMBDA t2 :
    Res([t2 EXCEPT !.line = t2.line + 1], TokNEWLINE, "none"))

\* ZincTokenizer.__next__
NextToken(t0) ==
    Bind(SkipWhitespace(t0), LAMBDA t :
    IF t.cur \in {"\n", "\r"} THEN NewlineToken(t)
    ELSE IF t.cur = EOF THEN Res(t, TokEOF, "none")
    ELSE IF _is_id_start(t.cur) THEN _tokenize_id(t)
    ELSE IF t.cur = "C" /\ t.peek = "(" THEN _tokenize_coord(t)
    ELSE IF IsUpper(t.cur) THEN _tokenize_reserved(t)
    ELSE IF t.cur = "\"" THEN _tokenize_str(t)
    ELSE IF t.cur = "@" THEN _tokenize_ref(t)
    ELSE IF t.cur = BACKTICK THEN _tokenize_uri(t)
    ELSE IF _is_digit(t.cur) \/ (t.cur = "-" /\ _is_digit(t.peek)) THEN _tokenize_num(t)
    ELSE _tokenize_symbol(t))

\* ------------------------------------------------------------------------
\* Scalars (dtypes.py)
\* ------------------------------------------------------------------------

ZPE == "ZincParseException"

PyNone == [k |-> "None"]
NULL == [k |-> "Null"]
MARKER == [k |-> "Marker"]
REMOVE == [k |-> "Remove"]
NA == [k |-> "Na"]
BOOL_TRUE == [k |-> "Boolean", value |-> TRUE]
BOOL_FALSE == [k |-> "Boolean", value |-> FALSE]

\* units = None is hasUnits = FALSE
Number(value, hasUnits, units) ==
    [k |-> "Number", value |-> value, hasUnits |-> hasUnits, units |-> units]

String(value) == [k |-> "String", value |-> value]

\* str.strip('"')
RECURSIVE StripQuotes(_)
StripQuotes(s) ==
    IF s # <<>> /\ Head(s) = "\"" THEN StripQuotes(Tail(s))
    ELSE IF s # <<>> /\ s[Len(s)] = "\"" THEN StripQuotes(SubSeq(s, 1, Len(s) - 1))
    ELSE s

\* Ref.__init__: display_name stays None unless a non-empty one is given
Ref(uid, given, display_name) ==
    [k |-> "Ref", uid |-> uid,
     hasDisplay |-> given /\ display_name # <<>>,
     display_name |-> IF given /\ display_name # <<>> THEN StripQuotes(display_name) ELSE <<>>]

Datetime(value, hasTz, tz) == [k |-> "Datetime", value |-> value, hasTz |-> hasTz, tz |-> tz]

\* a dict value of _parse_dict: items are <<key, value>> in insertion order
Dict(items) == [k |-> "Dict", items |-> items]

\* ------------------------------------------------------------------------
\* Python helpers the parser uses
\* ------------------------------------------------------------------------

\* the offset of the first space in s, 0 when there is none
FirstSpace(s) ==
    IF \E i \in 1..Len(s) : s[i] = " "
    THEN CHOOSE i \in 1..Len(s) : s[i] = " " /\ \A j \in 1..(i - 1) : s[j] # " "
    ELSE 0

\* the value of a run of decimal digits
RECURSIVE DigitsVal(_, _)
DigitsVal(s, acc) ==
    IF s = <<>> THEN acc ELSE DigitsVal(Tail(s), acc * 10 + (Ord(Head(s)) - 48))

\* the longest prefix of s made of digits
RECURSIVE DigitRun(_)
DigitRun(s) ==
    IF s # <<>> /\ Head(s) \in Digits THEN <<Head(s)>> \o DigitRun(Tail(s)) ELSE <<>>

\* m * 10^e with m not a multiple of ten, zero as 0 * 10^0
RECURSIVE Normalize(_, _)
Normalize(m, e) ==
    IF m = 0 THEN [m |-> 0, e |-> 0]
    ELSE IF m % 10 = 0 THEN Normalize(m \div 10, e + 1)
    ELSE [m |-> m, e |-> e]

\* float('inf'), float('-inf') and nan: an exponent beyond every finite float,
\* and a mantissa-free zero
FloatInf == [m |-> 1, e |-> 1000]
FloatNegInf == [m |-> -1, e |-> 1000]
FloatNaN == [m |-> 0, e |-> -1]

\* the number of decimal digits of a positive integer
RECURSIVE DigitCount(_)
DigitCount(n) == IF n < 10 THEN 1 ELSE 1 + DigitCount(n \div 10)

\* float() of digits, fraction digits and exponent: m * 10^e, and infinity
\* from 10^309 on, the least power of ten that float() rounds to infinity
FloatOf(neg, m, e) ==
    Bind(Normalize(m, e), LAMBDA n :
    IF n.m # 0 /\ DigitCount(n.m) + n.e > 309
    THEN [ok |-> TRUE, m |-> IF neg THEN FloatNegInf.m ELSE FloatInf.m, e |-> FloatInf.e]
    ELSE [ok |-> TRUE, m |-> IF neg THEN 0 - n.m ELSE n.m, e |-> n.e])

\* a float() that reads the leading digits and ignores what follows them
Float_LeadingDigits(raw) ==
    FloatOf(raw # <<>> /\ Head(raw) = "-", DigitsVal(DigitRun(Unsigned(raw)), 0), 0)

\* float(raw) for the characters a number token can hold: an optional sign,
\* digits, an optional fraction, an optional exponent; ok = FALSE is ValueError
Float(raw) ==
    Bind(Unsigned(raw), LAMBDA a :
    Bind(DigitRun(a), LAMBDA ip :
    Bind(SubSeq(a, Len(ip) + 1, Len(a)), LAMBDA b :
    Bind(IF b # <<>> /\ Head(b) = "." THEN DigitRun(Tail(b)) ELSE <<>>, LAMBDA fp :
    Bind(IF b # <<>> /\ Head(b) = "." THEN SubSeq(b, Len(fp) + 2, Len(b)) ELSE b, LAMBDA c :
    Bind(c # <<>> /\ Head(c) \in {"e", "E"}, LAMBDA hasExp :
    Bind(IF hasExp THEN Tail(c) ELSE c, LAMBDA d :
    Bind(IF hasExp THEN DigitRun(Unsigned(d)) ELSE <<>>, LAMBDA ep :
    IF /\ Len(ip) + Len(fp) > 0
       /\ (hasExp => ep # <<>>)
       /\ (IF hasExp THEN Len(Unsigned(d)) = Len(ep) ELSE d = <<>>)
    THEN FloatOf(raw # <<>> /\ Head(raw) = "-",
                 DigitsVal(ip \o fp, 0),
                 (IF hasExp /\ Head(d) = "-" THEN 0 - DigitsVal(ep, 0) ELSE DigitsVal(ep, 0))
                    - Len(fp))
    ELSE [ok |-> FALSE, m |-> 0, e |-> 0]))))))))

\* pd.to_datetime(s) on an ISO-8601 instant, YYYY-MM-DDTHH:MM[:SS][Z|+HH:MM|-HH:MM];
\* the Timestamp is kept as its text
IsIsoInstant(s) ==
    LET D(i) == i <= Len(s) /\ s[i] \in Digits
        C(i, c) == i <= Len(s) /\ s[i] = c
        base == /\ D(1) /\ D(2) /\ D(3) /\ D(4) /\ C(5, "-") /\ D(6) /\ D(7) /\ C(8, "-")
                /\ D(9) /\ D(10) /\ C(11, "T") /\ D(12) /\ D(13) /\ C(14, ":")
                /\ D(15) /\ D(16)
        secs == C(17, ":") /\ D(18) /\ D(19)
        n == IF secs THEN 19 ELSE 16
        off == /\ Len(s) = n + 6 /\ s[n + 1] \in {"+", "-"} /\ D(n + 2) /\ D(n + 3)
               /\ C(n + 4, ":") /\ D(n + 5) /\ D(n + 6)
    IN  base /\ (Len(s) = n \/ (Len(s) = n + 1 /\ s[n + 1] = "Z") \/ off)

\* ------------------------------------------------------------------------
\* The parser (zinc_parser.py).  A parser state p holds the tokenizer p.tz and
\* the tokens p.cur and p.peek; a routine returns the state after it, its
\* value and what it raised.
\* ------------------------------------------------------------------------

PRes(p, val, err) == [p |-> p, val |-> val, err |-> err]

PRaise(p, err) == PRes(p, PyNone, err)

\* ZincParser._consume
Consume(p) ==
    Bind(NextToken(p.tz), LAMBDA r :
    IF r.err # "none"
    THEN PRaise([p EXCEPT !.cur = p.peek, !.tz = r.t], r.err)
    ELSE PRes([tz |-> r.t, cur |-> p.peek, peek |-> r.tok], PyNone, "none"))

\* ZincParser._verify_type; reading .ttype of None raises AttributeError
_verify_type(p, expected) ==
    IF p.cur = NoneToken THEN PRaise(p, "AttributeError")
    ELSE IF p.cur.ttype # expected THEN PRaise(p, ZPE)
    ELSE PRes(p, PyNone, "none")

\* ZincParser._verify_eq: Token.__eq__ compares ttype and val
_verify_eq(p, expected) ==
    IF p.cur.ttype # expected.ttype \/ p.cur.val # expected.val
    THEN PRaise(p, ZPE)
    ELSE PRes(p, PyNone, "none")

_consume_t(p, expected) == Then(_verify_type(p, expected), LAMBDA v : Consume(p))

_consume_i(p, expected) == Then(_verify_eq(p, expected), LAMBDA v : Consume(p))

\* the value is the tag name
_consume_tag_name(p) ==
    Then(_verify_type(p, "ID"), LAMBDA v :
    IF ~(p.cur.val # <<>> /\ IsLower(p.cur.val[1])) THEN PRaise(p, ZPE)
    ELSE Then(_consume_t(p, "ID"), LAMBDA c : PRes(c.p, String(p.cur.val), "none")))

\* the value is the token's text
_consume_num(p) ==
    Then(_verify_type(p, "NUMBER"), LAMBDA v :
    Then(_consume_t(p, "NUMBER"), LAMBDA c : PRes(c.p, String(p.cur.val), "none")))

_consume_str(p) ==
    Then(_verify_type(p, "STRING"), LAMBDA v :
    Then(_consume_t(p, "STRING"), LAMBDA c : PRes(c.p, String(p.cur.val), "none")))

_parse_coord(p, id_str) ==
    IF id_str # <<"C">> THEN PRaise(p, ZPE) ELSE
    Then(_consume_i(p, TokLPAREN), LAMBDA a :
    Then(_consume_num(a.p), LAMBDA lat :
    Then(_consume_i(lat.p, TokCOMMA), LAMBDA b :
    Then(_consume_num(b.p), LAMBDA lng :
    Then(_consume_i(lng.p, TokRPAREN), LAMBDA c :
    PRaise(c.p, "AttributeError"))))))   \* lat.val on a str

\* the Ref of a token's text: the id, then a display name after a space
RefOf(val, i) ==
    IF i = 0 THEN Ref(val, FALSE, <<>>)
    ELSE Ref(SubSeq(val, 1, i - 1), TRUE, SubSeq(val, i + 1, Len(val)))

_parse_ref(p) ==
    Then(_consume_t(p, "REF"), LAMBDA c :
    PRes(c.p, RefOf(p.cur.val, FirstSpace(p.cur.val)), "none"))

_parse_string(p) == Then(Consume(p), LAMBDA c : PRes(c.p, String(p.cur.val), "none"))

\* the Datetime of a token's text: the instant, then a timezone after a space
DatetimeOf(val, i) ==
    IF i = 0 THEN Datetime(val, FALSE, <<>>)
    ELSE Datetime(SubSeq(val, 1, i - 1), TRUE, SubSeq(val, i + 1, Len(val)))

\* pd.to_datetime is taken to raise ValueError on anything but an ISO instant
_parse_datetime(p) ==
    Bind(DatetimeOf(p.cur.val, FirstSpace(p.cur.val)), LAMBDA dt :
    IF ~IsIsoInstant(dt.value) THEN PRaise(p, "ValueError")
    ELSE Then(Consume(p), LAMBDA c : PRes(c.p, dt, "none")))

\* _parse_list calls self._consume(tokens.LBRACKET), which takes no argument
_parse_list(p) == PRaise(p, "TypeError")

RECURSIVE _parse_val(_)
RECURSIVE DictLoop(_, _)

\* ZincParser._parse_dict: the value is a Dict
_parse_dict(p) ==
    Then(IF p.cur = TokLBRACE THEN _consume_i(p, TokLBRACE) ELSE PRes(p, PyNone, "none"),
         LAMBDA a :
    Then(DictLoop(a.p, <<>>), LAMBDA d :
    IF p.cur = TokLBRACE
    THEN Then(_consume_i(d.p, TokRBRACE), LAMBDA c : PRes(c.p, d.val, "none"))
    ELSE d))

DictLoop(p, db) ==
    IF p.cur = NoneToken THEN PRaise(p, "AttributeError")
    ELSE IF p.cur.ttype # "ID" THEN PRes(p, Dict(db), "none")
    ELSE Then(_consume_tag_name(p), LAMBDA n :
         IF n.p.cur = TokCOLON
         THEN Then(_consume_i(n.p, TokCOLON), LAMBDA c :
              Then(_parse_val(c.p), LAMBDA v :
              DictLoop(v.p, DictSet(db, n.val.value, v.val))))
         ELSE DictLoop(n.p, DictSet(db, n.val.value, MARKER)))

ReservedValues ==
    << << <<"T">>, BOOL_TRUE>>, << <<"F">>, BOOL_FALSE>>, << <<"N">>, NULL>>,
       << <<"M">>, MARKER>>, << <<"N", "A">>, NA>>, << <<"R">>, REMOVE>> >>

\* the Number of a number token: float() of the text before unit_index
NumberOf(tok, qty) ==
    Number([m |-> qty.m, e |-> qty.e], tok.unit_index > 0,
           IF tok.unit_index > 0 THEN SubSeq(tok.val, tok.unit_index + 1, Len(tok.val))
           ELSE <<>>)

_parse_val(p) ==
    IF p.cur = NoneToken THEN PRaise(p, "AttributeError")
    ELSE IF p.cur.ttype = "ID"
    THEN Then(_consume_t(p, "ID"), LAMBDA c :
         IF c.p.cur = TokLPAREN
         THEN IF c.p.peek = NoneToken THEN PRaise(c.p, "AttributeError")
              ELSE IF c.p.peek.ttype = "NUMBER" THEN _parse_coord(c.p, p.cur.val)
              ELSE PRaise(c.p, "TypeError")   \* _parse_xstr(id_str)
         ELSE PRaise(c.p, ZPE))
    ELSE IF p.cur.ttype = "RESERVED"
    THEN Then(_consume_t(p, "RESERVED"), LAMBDA c :
         IF DictHas(ReservedValues, p.cur.val)
         THEN PRes(c.p, DictGet(ReservedValues, p.cur.val), "none")
         ELSE PRaise(c.p, ZPE))
    ELSE IF p.cur.ttype = "NUMBER"
    THEN Bind(Float(IF p.cur.unit_index > 0 THEN SubSeq(p.cur.val, 1, p.cur.unit_index)
                    ELSE p.cur.val), LAMBDA qty :
         IF ~qty.ok THEN PRaise(p, ZPE)
         ELSE Then(_consume_t(p, "NUMBER"), LAMBDA c : PRes(c.p, NumberOf(p.cur, qty), "none")))
    ELSE IF p.cur.ttype = "REF" THEN _parse_ref(p)
    ELSE IF p.cur.ttype = "STRING" THEN _parse_string(p)
    ELSE IF p.cur = TokMINUS /\ p.peek = NoneToken THEN PRaise(p, "AttributeError")
    ELSE IF p.cur = TokMINUS /\ p.peek.val = <<"I", "N", "F">>
    THEN Then(_consume_i(p, TokMINUS), LAMBDA c :
         PRaise(c.p, "AttributeError"))   \* tokens.ID does not exist
    ELSE IF p.cur = TokLBRACKET THEN _parse_list(p)
    ELSE IF p.cur = TokLBRACE THEN _parse_dict(p)
    ELSE IF p.cur.ttype = "DOUBLELT" THEN PRaise(p, "NotImplementedError")
    ELSE IF p.cur.ttype = "DATETIME" THEN _parse_datetime(p)
    ELSE PRaise(p, ZPE)

\* ------------------------------------------------------------------------
\* GridBuilder and Grid (grid.py)
\* ------------------------------------------------------------------------

\* GridBuilder.__init__; version 0 is "no builder yet"
GridBuilder(version) ==
    [version |-> version, has_meta |-> FALSE, grid_meta |-> <<>>, col_meta |-> <<>>, cols |-> <<>>]

add_meta(b, grid_meta) == [b EXCEPT !.has_meta = TRUE, !.grid_meta = grid_meta]

add_col(b, colname, col) ==
    [b EXCEPT !.col_meta = DictSet(b.col_meta, colname, col),
              !.cols = DictSet(b.cols, colname, <<>>)]

\* zip(self.cols, row) stops at the shorter of the two
add_row(b, row) ==
    [b EXCEPT !.cols = [i \in 1..Len(b.cols) |->
        IF i <= Len(row) THEN <<b.cols[i][1], Append(b.cols[i][2], row[i])>> ELSE b.cols[i]]]

\* ------------------------------------------------------------------------
\* str() and repr() of scalars (dtypes.py)
\* ------------------------------------------------------------------------

RECURSIVE IntDigits(_)
IntDigits(n) ==
    IF n < 10 THEN <<Chr(48 + n)>> ELSE Append(IntDigits(n \div 10), Chr(48 + (n % 10)))

Zeros(n) == [i \in 1..n |-> "0"]

Abs(x) == IF x < 0 THEN 0 - x ELSE x

\* repr of a float with the digits digs and the decimal exponent x of its first digit
FloatBody(e, digs, x) ==
    IF x < 0 - 4 \/ x >= 16
    THEN <<digs[1]>> \o (IF Len(digs) > 1 THEN <<".">> \o SubSeq(digs, 2, Len(digs)) ELSE <<>>)
         \o <<"e", IF x < 0 THEN "-" ELSE "+">>
         \o (IF Abs(x) < 10 THEN <<"0">> ELSE <<>>) \o IntDigits(Abs(x))
    ELSE IF e >= 0 THEN digs \o Zeros(e) \o <<".", "0">>
    ELSE IF x >= 0
         THEN SubSeq(digs, 1, x + 1) \o <<".">> \o SubSeq(digs, x + 2, Len(digs))
    ELSE <<"0", ".">> \o Zeros(0 - (x + 1)) \o digs

\* str(float) of m * 10^e (negative zero is not told from zero)
FloatStr(v) ==
    IF v.m = 0 THEN <<"0", ".", "0">>
    ELSE (IF v.m < 0 THEN <<"-">> ELSE <<>>)
         \o Bind(IntDigits(Abs(v.m)), LAMBDA digs : FloatBody(v.e, digs, Len(digs) + v.e - 1))

\* Timestamp.isoformat(): seconds are always written and Z is written +00:00
IsoFormat(ts) ==
    LET secs == Len(ts) >= 17 /\ ts[17] = ":"
        n == IF secs THEN 19 ELSE 16
        base == IF secs THEN SubSeq(ts, 1, 19) ELSE SubSeq(ts, 1, 16) \o <<":", "0", "0">>
        rest == SubSeq(ts, n + 1, Len(ts))
    IN  base \o (IF rest = <<"Z">> THEN <<"+", "0", "0", ":", "0", "0">> ELSE rest)

NoneStr == <<"N", "o", "n", "e">>

RECURSIVE ReprOf(_)
RECURSIVE ReprItems(_)

\* __str__ of a scalar; a dict value prints as Python's dict
StrOf(v) ==
    CASE v.k \in {"None", "Null", "Marker", "Remove", "Na"} -> NoneStr
      [] v.k = "Boolean" -> IF v.value THEN <<"T", "r", "u", "e">> ELSE <<"F", "a", "l", "s", "e">>
      [] v.k = "Number" -> FloatStr(v.value) \o (IF v.hasUnits THEN v.units ELSE <<>>)
      [] v.k = "String" -> v.value
      [] v.k = "Ref" -> <<"@">> \o v.uid \o
            (IF v.hasDisplay THEN <<" ", "\"">> \o v.display_name \o <<"\"">> ELSE <<>>)
      [] v.k = "Datetime" -> IsoFormat(v.value) \o
            (IF v.hasTz /\ v.tz # <<>> THEN <<" ">> \o v.tz ELSE <<>>)
      [] v.k = "Dict" -> <<"{">> \o ReprItems(v.items) \o <<"}">>

ReprItems(items) ==
    IF items = <<>> THEN <<>>
    ELSE <<"'">> \o items[1][1] \o <<"'", ":", " ">> \o ReprOf(items[1][2])
         \o (IF Len(items) > 1 THEN <<",", " ">> \o ReprItems(Tail(items)) ELSE <<>>)

\* __repr__ of a scalar
ReprOf(v) ==
    LET q(s) == <<",", " ", "\"">> \o s \o <<"\"", ")">> IN
    CASE v.k = "None" -> NoneStr
      [] v.k = "Null" -> <<"N", "u", "l", "l">>
      [] v.k = "Marker" -> <<"M", "a", "r", "k", "e", "r">>
      [] v.k = "Remove" -> <<"R", "e", "m", "o", "v", "e">>
      [] v.k = "Na" -> <<"N", "a">>
      [] v.k = "Boolean" -> <<"B", "o", "o", "l", "e", "a", "n", "(">> \o StrOf(v) \o <<")">>
      [] v.k = "String" -> <<"S", "t", "r", "i", "n", "g", "(">> \o v.value \o <<")">>
      [] v.k = "Number" -> <<"N", "u", "m", "b", "e", "r", "(">> \o FloatStr(v.value)
            \o q(IF v.hasUnits THEN v.units ELSE NoneStr)
      [] v.k = "Ref" -> <<"R", "e", "f", "(">> \o v.uid
            \o q(IF v.hasDisplay THEN v.display_name ELSE NoneStr)
      [] v.k = "Datetime" -> <<"D", "a", "t", "e", "t", "i", "m", "e", "(">> \o IsoFormat(v.value)
            \o q(IF v.hasTz THEN v.tz ELSE NoneStr)
      [] v.k = "Dict" -> StrOf(v)

NoGrid == [version |-> 0]

Grid(version, has_info, grid_info, column_info, data) ==
    [version |-> version, has_info |-> has_info, grid_info |-> grid_info,
     column_info |-> column_info, data |-> data]

TS == <<"t", "s">>

ID_COLTAG == <<"i", "d">>

\* the DataFrame's columns: a column whose meta has `id` is renamed to str(id)
RECURSIVE DataColumns(_, _)
DataColumns(cols, col_meta) ==
    IF cols = <<>> THEN <<>>
    ELSE LET col == cols[1][1]
             v == DictGet(col_meta, col)
             name == IF DictHas(v, ID_COLTAG) THEN StrOf(DictGet(v, ID_COLTAG)) ELSE col
         IN  IF col = TS THEN DataColumns(Tail(cols), col_meta)
             ELSE << <<name, cols[1][2]>> >> \o DataColumns(Tail(cols), col_meta)

\* GridBuilder.build: cols.pop('ts') raises KeyError without a ts column, and
\* x.val raises AttributeError on the first cell of ts, whatever the cell is
\* (no scalar has .val); with no rows every column is empty and
\* _sanitize_series has nothing to convert
build(b) ==
    IF ~DictHas(b.cols, TS) THEN [grid |-> NoGrid, err |-> "KeyError"]
    ELSE IF DictGet(b.cols, TS) # <<>> THEN [grid |-> NoGrid, err |-> "AttributeError"]
    ELSE [grid |-> Grid(b.version, b.has_meta, b.grid_meta, b.col_meta,
                        [index |-> <<>>, columns |-> DataColumns(b.cols, b.col_meta)]),
          err |-> "none"]

\* ------------------------------------------------------------------------
\* The emitter (grid.py)
\* ------------------------------------------------------------------------

_stringify_tag(k, v) ==
    IF v = MARKER THEN k
    ELSE IF v.k = "String" THEN k \o <<":", "\"">> \o v.value \o <<"\"">>
    ELSE k \o <<":">> \o StrOf(v)

\* " ".join(parts)
RECURSIVE JoinWith(_, _)
JoinWith(parts, sep) ==
    IF parts = <<>> THEN <<>>
    ELSE IF Len(parts) = 1 THEN parts[1]
    ELSE parts[1] \o sep \o JoinWith(Tail(parts), sep)

_stringify_tags(tags) == [i \in 1..Len(tags) |-> _stringify_tag(tags[i][1], tags[i][2])]

VerTag(version) == <<"v", "e", "r", ":", "\"">> \o IntDigits(version) \o <<".", "0", "\"">>

\* Grid._grid_info_str of a grid whose grid_info is a dict
_grid_info_str(g) == JoinWith(<<VerTag(g.version)>> \o _stringify_tags(g.grid_info), <<" ">>)

_column_info_str(g) ==
    JoinWith([i \in 1..Len(g.column_info) |->
                JoinWith(<<g.column_info[i][1]>> \o _stringify_tags(g.column_info[i][2]), <<" ">>)],
             <<",">>)

\* Grid._zinc_format_data and df.to_csv(header=False): the index of a DataFrame
\* without rows is a plain Index, which has no to_pydatetime; a row is written
\* as its timestamp, the ts column's tz and its cells
_zinc_format_data(g) ==
    LET colinfo == g.column_info[1][2]
        tz == IF DictHas(colinfo, <<"t", "z">>)
              THEN <<" ">> \o StrOf(DictGet(colinfo, <<"t", "z">>)) ELSE <<>>
        row(i) == JoinWith(<<IsoFormat(g.data.index[i]) \o tz>>
                           \o [j \in 1..Len(g.data.columns) |-> StrOf(g.data.columns[j][2][i])],
                           <<",">>) \o <<"\n">>
    IN  IF g.data.index = <<>>
        THEN [csv |-> <<>>, err |-> "AttributeError"]
        ELSE [csv |-> JoinWith([i \in 1..Len(g.data.index) |-> row(i)], <<>>), err |-> "none"]

\* Grid.to_zinc(): grid_info is None when the first line had no tag, and
\* _stringify_tags(None) raises AttributeError
to_zinc(g) ==
    IF ~g.has_info THEN [text |-> <<>>, err |-> "AttributeError"] ELSE
    LET gridinfostr == _grid_info_str(g)
        columninfostr == _column_info_str(g)
        df == _zinc_format_data(g)
    IN  IF df.err # "none" THEN [text |-> <<>>, err |-> df.err]
        ELSE [text |-> gridinfostr \o <<"\n">> \o columninfostr \o <<"\n">> \o df.csv,
              err |-> "none"]

\* ------------------------------------------------------------------------
\* read() and ZincParser.parse(), one step of _parse_grid at a time.  A frame
\* m holds the place in the code (pc), the parser (p), the builder (gb),
\* num_cols, the rows handed to add_row so far (handed), the grid built
\* (grid), the Grid returned (result), the exception raised (raised) and the
\* place it was raised at (where), and whether the stream is closed.
\* ------------------------------------------------------------------------

NewFrame(text, failAt) ==
    [pc |-> "open",
     p |-> [tz |-> NewCursor(text, failAt), cur |-> NoneToken, peek |-> NoneToken],
     gb |-> GridBuilder(0), num_cols |-> 0, handed |-> <<>>,
     grid |-> NoGrid, result |-> NoGrid, raised |-> "none", where |-> "none", closed |-> FALSE]

\* an exception leaving read() with the stream still open
Fail_StreamLeftOpen(m, p, err) ==
    IF err = "Hang"
    THEN [m EXCEPT !.pc = "hang", !.p = p, !.where = m.pc]
    ELSE [m EXCEPT !.pc = "done", !.p = p, !.raised = err, !.where = m.pc]

\* an exception leaves read(): the `finally` of parse() and the `with` of
\* read() close the stream; a loop that never ends leaves nothing
Fail(m, p, err) ==
    IF err = "Hang"
    THEN [m EXCEPT !.pc = "hang", !.p = p, !.where = m.pc]
    ELSE [m EXCEPT !.pc = "done", !.p = p, !.raised = err, !.where = m.pc, !.closed = TRUE]

Goto(m, p, pc) == [m EXCEPT !.pc = pc, !.p = p]

\* K applied to the result r of a parser routine, unless the routine raised
Try(m, r, K(_)) == IF r.err # "none" THEN Fail(m, r.p, r.err) ELSE K(r)

\* read(): ZincTokenizer(buf) and ZincParser.__init__ (two _consume each)
StepOpen(m) ==
    Try(m, Consume([m.p EXCEPT !.tz = ZincTokenizer(m.p.tz.text, m.p.tz.failAt)]), LAMBDA c1 :
    Try(m, Consume(c1.p), LAMBDA c2 : Goto(m, c2.p, "ver")))

VER == <<"v", "e", "r">>

\* _check_version falling back to version 3 instead of raising
_check_version_Default(s) ==
    IF s = String(<<"2", ".", "0">>) THEN 2 ELSE 3

\* 0 stands for the ZincParseException of an unsupported version
_check_version(s) ==
    IF s = String(<<"3", ".", "0">>) THEN 3
    ELSE IF s = String(<<"2", ".", "0">>) THEN 2
    ELSE 0

\* _parse_grid, the `ver` tag and the GridBuilder
StepVer(m) ==
    IF m.p.cur = NoneToken THEN Fail(m, m.p, "AttributeError")
    ELSE IF ~(m.p.cur.ttype = "ID" /\ m.p.cur.val = VER) THEN Fail(m, m.p, ZPE)
    ELSE
    Try(m, Consume(m.p), LAMBDA c1 :
    Try(m, _consume_i(c1.p, TokCOLON), LAMBDA c2 :
    Try(m, _consume_str(c2.p), LAMBDA s :
    IF _check_version(s.val) = 0 THEN Fail(m, s.p, ZPE)
    ELSE [Goto(m, s.p, "meta") EXCEPT !.gb = GridBuilder(_check_version(s.val))])))

ERR == <<"e", "r", "r">>

\* _parse_grid, the end of the first line
EndMeta(m, p) == Try(m, _consume_i(p, TokNEWLINE), LAMBDA c : Goto(m, c.p, "cols"))

\* the grid meta without the check for `err`
StepMeta_NoErrCheck(m) ==
    IF m.p.cur = NoneToken THEN Fail(m, m.p, "AttributeError")
    ELSE IF m.p.cur.ttype # "ID" THEN EndMeta(m, m.p)
    ELSE
    Try(m, _parse_dict(m.p), LAMBDA d :
    EndMeta([m EXCEPT !.gb = add_meta(m.gb, d.val.items)], d.p))

\* _parse_grid, the grid meta and the end of the first line
StepMeta(m) ==
    IF m.p.cur = NoneToken THEN Fail(m, m.p, "AttributeError")
    ELSE IF m.p.cur.ttype # "ID" THEN EndMeta(m, m.p)
    ELSE
    Try(m, _parse_dict(m.p), LAMBDA d :
    IF DictHas(d.val.items, ERR) THEN Fail(m, d.p, "ZincErrorGridException")
    ELSE EndMeta([m EXCEPT !.gb = add_meta(m.gb, d.val.items)], d.p))

\* _parse_grid, the end of one turn of the column loop
EndCol(m, p) ==
    IF p.cur # TokCOMMA THEN Goto(m, p, "endcols")
    ELSE Try(m, _consume_i(p, TokCOMMA), LAMBDA c : Goto(m, c.p, "cols"))

\* num_cols += 1
CountCol(m) == [m EXCEPT !.num_cols = m.num_cols + 1]

\* _parse_grid, one turn of the column loop
StepCol(m) ==
    IF m.p.cur = NoneToken THEN Fail(m, m.p, "AttributeError")
    ELSE IF m.p.cur.ttype # "ID" THEN Goto(m, m.p, "endcols")
    ELSE
    Try(CountCol(m), _consume_tag_name(m.p), LAMBDA n :
    IF n.p.cur = NoneToken THEN Fail(CountCol(m), n.p, "AttributeError")
    ELSE
    Try(CountCol(m),
        IF n.p.cur.ttype = "ID" THEN _parse_dict(n.p) ELSE PRes(n.p, Dict(<<>>), "none"),
        LAMBDA d :
    EndCol([CountCol(m) EXCEPT !.gb = add_col(m.gb, n.val.value, d.val.items)], d.p)))

\* after the column loop, without the check of num_cols
StepEndCols_NoCheck(m) ==
    Try(m, _consume_i(m.p, TokNEWLINE), LAMBDA c : Goto(m, c.p, "rows"))

\* _parse_grid, after the column loop
StepEndCols(m) ==
    IF m.num_cols = 0 THEN Fail(m, m.p, ZPE)
    ELSE Try(m, _consume_i(m.p, TokNEWLINE), LAMBDA c : Goto(m, c.p, "rows"))

\* an empty cell left out of the row instead of appended as None
AppendCell_SkipEmpty(cells, val) == IF val = PyNone THEN cells ELSE Append(cells, val)

\* cells.append(None) and cells.append(self._parse_val())
AppendCell(cells, val) == Append(cells, val)

\* the cells of one row: for i in range(num_cols)
RECURSIVE ReadCells(_, _, _, _)
ReadCells(p, i, num_cols, cells) ==
    IF i >= num_cols THEN PRes(p, cells, "none")
    ELSE
    Then(IF p.cur \in {TokCOMMA, TokNEWLINE, TokEOF} THEN PRes(p, PyNone, "none")
         ELSE _parse_val(p), LAMBDA v :
    Then(IF i + 1 < num_cols THEN _consume_i(v.p, TokCOMMA) ELSE PRes(v.p, PyNone, "none"),
         LAMBDA c :
    ReadCells(c.p, i + 1, num_cols, AppendCell(cells, v.val))))

\* _parse_grid, one turn of the row loop: the cells and add_row
StepRow(m) ==
    IF m.p.cur \in {TokNEWLINE, TokEOF} THEN Goto(m, m.p, "endrows") ELSE
    Try(m, ReadCells(m.p, 0, m.num_cols, <<>>), LAMBDA r :
    [Goto(m, r.p, "endrow") EXCEPT !.gb = add_row(m.gb, r.val),
                                   !.handed = Append(m.handed, r.val)])

\* the end of a row that skips what is left of the line up to its newline
\* instead of requiring the newline
RECURSIVE SkipToNewline(_, _)
SkipToNewline(m, p) ==
    IF p.cur \in {TokNEWLINE, TokEOF, NoneToken} THEN Goto(m, p, "endrow2")
    ELSE Try(m, Consume(p), LAMBDA c : SkipToNewline(m, c.p))

StepEndRow_DropExtra(m) ==
    Bind(SkipToNewline(m, m.p), LAMBDA s :
    IF s.pc # "endrow2" THEN s
    ELSE IF s.p.cur = TokEOF THEN Goto(m, s.p, "endrows")
    ELSE Try(m, _consume_i(s.p, TokNEWLINE), LAMBDA c : Goto(m, c.p, "rows")))

\* _parse_grid, the end of one turn of the row loop
StepEndRow(m) ==
    IF m.p.cur = TokEOF THEN Goto(m, m.p, "endrows")
    ELSE Try(m, _consume_i(m.p, TokNEWLINE), LAMBDA c : Goto(m, c.p, "rows"))

\* _parse_grid, after the row loop
StepEndRows(m) ==
    IF m.p.cur = TokNEWLINE
    THEN Try(m, _consume_i(m.p, TokNEWLINE), LAMBDA c : Goto(m, c.p, "build"))
    ELSE Goto(m, m.p, "build")

\* _parse_grid, return gb.build()
StepBuild(m) ==
    Bind(build(m.gb), LAMBDA b :
    IF b.err # "none" THEN Fail(m, m.p, b.err)
    ELSE [Goto(m, m.p, "verify") EXCEPT !.grid = b.grid])

\* parse returning the grid without _verify_eq(tokens.EOF)
StepReturn_NoVerify(m) == [m EXCEPT !.pc = "done", !.result = m.grid, !.closed = TRUE]

\* ZincParser.parse: _verify_eq(tokens.EOF), return grid, close the stream
StepReturn(m) ==
    Try(m, _verify_eq(m.p, TokEOF), LAMBDA v :
    [m EXCEPT !.pc = "done", !.result = m.grid, !.closed = TRUE])

Step(m) ==
    CASE m.pc = "open" -> StepOpen(m)
      [] m.pc = "ver" -> StepVer(m)
      [] m.pc = "meta" -> StepMeta(m)
      [] m.pc = "cols" -> StepCol(m)
      [] m.pc = "endcols" -> StepEndCols(m)
      [] m.pc = "rows" -> StepRow(m)
      [] m.pc = "endrow" -> StepEndRow(m)
      [] m.pc = "endrows" -> StepEndRows(m)
      [] m.pc = "build" -> StepBuild(m)
      [] m.pc = "verify" -> StepReturn(m)
      [] OTHER -> m

RECURSIVE Run(_)
Run(m) == IF m.pc \in {"done", "hang"} THEN m ELSE Run(Step(m))

\* zincio.read / zincio.parse of a whole text
read(text, failAt) == Run(NewFrame(text, failAt))

\* ------------------------------------------------------------------------
\* The texts read
\* ------------------------------------------------------------------------

\* first lines that pass the header: a version, then grid tags
GoodHeads ==
    {<<"v", "e", "r", ":", "\"", "3", ".", "0", "\"">>,    \* ver:"3.0"
     <<"v", "e", "r", ":", "\"", "2", ".", "0", "\"", " ", "a">>,    \* ver:"2.0" a
     <<"v", "e", "r", ":", "\"", "3", ".", "0", "\"", " ", "n", ":", "1", " ", "s", ":", "\"", "x", "\"">>}    \* ver:"3.0" n:1 s:"x"

\* first lines of an error grid
ErrHeads ==
    {<<"v", "e", "r", ":", "\"", "3", ".", "0", "\"", " ", "e", "r", "r">>,    \* ver:"3.0" err
     <<"v", "e", "r", ":", "\"", "3", ".", "0", "\"", " ", "a", ":", "\"", "b", "\"", " ", "e", "r", "r", " ", "c">>}    \* ver:"3.0" a:"b" err c

\* first lines without a usable version, or that do not scan
BadHeads ==
    {<<>>,    \* (empty)
     <<"i", "d", ":", "\"", "3", ".", "0", "\"">>,    \* id:"3.0"
     <<"v", "e", "r", ":", "\"", "4", ".", "0", "\"">>,    \* ver:"4.0"
     <<"v", "e", "r", ":", "3">>,    \* ver:3
     <<"v", "e", "r", " ", "\"", "3", ".", "0", "\"">>,    \* ver "3.0"
     <<"v", "e", "r", ":", "\"", "4", ".", "0", "\"", " ", "e", "r", "r">>,    \* ver:"4.0" err
     <<"1", "2", ":", "3", "0">>,    \* 12:30
     <<"X", "y">>}    \* Xy

\* column lines that declare columns
ColLines ==
    {<<"t", "s">>,    \* ts
     <<"t", "s", ",", "v", "0", " ", "a", ":", "\"", "b", "\"">>,    \* ts,v0 a:"b"
     <<"v", "0">>,    \* v0
     <<"t", "s", ",", "t", "s">>}    \* ts,ts

\* column lines that declare ts, but not first
TsLastColLines ==
    {<<"v", "0", ",", "t", "s">>,    \* v0,ts
     <<"v", "0", " ", "a", ":", "\"", "b", "\"", ",", "t", "s">>}    \* v0 a:"b",ts

\* column lines that start with no name, do not scan, or end in a comma
BadColLines ==
    {<<"1">>,    \* 1
     <<"X", "y">>,    \* Xy
     <<"1", "2", ":", "3", "0">>,    \* 12:30
     <<"t", "s", ",">>}    \* ts,

\* rows of one, two and three cells, with empty cells and with a cell that does not scan
RowLines ==
    {<<"1">>,    \* 1
     <<"1", ",", "2">>,    \* 1,2
     <<"1", ",">>,    \* 1,
     <<",">>,    \* ,
     <<"1", ",", "2", ",", "3">>,    \* 1,2,3
     <<"1", ",", "X", "y">>}    \* 1,Xy

\* what follows the last row: nothing, a newline, a blank line and more text
Tails ==
    {<<>>,    \* (empty)
     <<"\n">>,    \* \n
     <<"\n", "\n", "1">>}    \* \n\n1

\* texts as Grid.to_zinc writes them: tags after single spaces, strings in double
\* quotes, one ts index column, a row as its instant and its cells
CanonicalTexts ==
    {<<"v", "e", "r", ":", "\"", "3", ".", "0", "\"", "\n", "t", "s", "\n">>,    \* ver:"3.0"\nts\n
     <<"v", "e", "r", ":", "\"", "2", ".", "0", "\"", " ", "a", "\n", "t", "s", "\n">>,    \* ver:"2.0" a\nts\n
     <<"v", "e", "r", ":", "\"", "3", ".", "0", "\"", " ", "a", ":", "\"", "b", "\"", "\n", "t", "s", ",", "v", "0", "\n", "2", "0", "2", "0", "-", "0", "1", "-", "0", "1", "T", "0", "0", ":", "0", "0", ":", "0", "0", "+", "0", "0", ":", "0", "0", ",", "1", ".", "0", "\n">>}    \* ver:"3.0" a:"b"\nts,v0\n2020-01-01T00:00:00+00:00,1.0\n

\* the most rows a text has
MaxRows == 2

NL == <<"\n">>

\* up to n rows, a newline between two rows
RECURSIVE RowBlocks(_)
RowBlocks(n) ==
    IF n = 0 THEN {<<>>}
    ELSE {<<>>} \cup {r \o s : r \in RowLines,
                               s \in {<<>>} \cup {NL \o b : b \in RowBlocks(n - 1) \ {<<>>}}}

Heads == GoodHeads \cup ErrHeads \cup BadHeads

\* the first lines that whole grids are built on
BodyHeads ==
    {h \in GoodHeads : Len(h) <= 11}

\* a first line alone, two lines without and with the newline that ends the
\* second, whole grids, an empty column line with a line after it, headers
\* whose ts column is not the first, error grids with lines after the first,
\* and texts as to_zinc writes them
Texts ==
    Heads
    \cup {h \o NL \o c : h \in BodyHeads, c \in ColLines \cup {<<>>}}
    \cup {h \o NL \o c \o NL : h \in Heads, c \in ColLines \cup BadColLines}
    \cup {h \o NL \o c \o NL \o b \o t :
            h \in BodyHeads, c \in ColLines \cup {<<>>},
            b \in RowBlocks(MaxRows), t \in Tails}
    \cup {h \o NL \o NL \o c : h \in BodyHeads, c \in BadColLines}
    \cup {h \o NL \o c \o t : h \in BodyHeads, c \in TsLastColLines, t \in {<<>>, NL}}
    \cup {h \o NL \o c \o NL \o r :
            h \in ErrHeads, c \in ColLines \cup {<<>>}, r \in RowLines}
    \cup CanonicalTexts

\* the stream never fails
Never(text) == Len(text) + 1

\* ------------------------------------------------------------------------
\* The state: one call of zincio.read on a stream, then Grid.to_zinc
\* ------------------------------------------------------------------------

VARIABLES pc, tokenizer, cur, peek, gb, num_cols, handed, grid, result, raised, where,
          closed, zinc, stream, cell

vars == <<pc, tokenizer, cur, peek, gb, num_cols, handed, grid, result, raised, where,
          closed, zinc, stream, cell>>

Frame ==
    [pc |-> pc, p |-> [tz |-> tokenizer, cur |-> cur, peek |-> peek], gb |-> gb,
     num_cols |-> num_cols, handed |-> handed, grid |-> grid, result |-> result,
     raised |-> raised, where |-> where, closed |-> closed]

Commit(m) ==
    /\ pc' = m.pc
    /\ tokenizer' = m.p.tz
    /\ cur' = m.p.cur
    /\ peek' = m.p.peek
    /\ gb' = m.gb
    /\ num_cols' = m.num_cols
    /\ handed' = m.handed
    /\ grid' = m.grid
    /\ result' = m.result
    /\ raised' = m.raised
    /\ where' = m.where
    /\ closed' = m.closed
    /\ UNCHANGED <<zinc, stream, cell>>

NoZinc == [text |-> <<>>, err |-> "none"]

\* no cell value parsed yet
NoCell == [val |-> PyNone, err |-> "unset"]

Init ==
    \E text \in Texts :
        LET m == NewFrame(text, Never(text)) IN
        /\ pc = m.pc
        /\ tokenizer = m.p.tz
        /\ cur = m.p.cur
        /\ peek = m.p.peek
        /\ gb = m.gb
        /\ num_cols = m.num_cols
        /\ handed = m.handed
        /\ grid = m.grid
        /\ result = m.result
        /\ raised = m.raised
        /\ where = m.where
        /\ closed = m.closed
        /\ zinc = NoZinc
        /\ stream = <<>>
        /\ cell = NoCell

Open == pc = "open" /\ Commit(StepOpen(Frame))

ParseVer == pc = "ver" /\ Commit(StepVer(Frame))

ParseMeta == pc = "meta" /\ Commit(StepMeta(Frame))

ParseCol == pc = "cols" /\ Commit(StepCol(Frame))

EndCols == pc = "endcols" /\ Commit(StepEndCols(Frame))

ParseRow == pc = "rows" /\ Commit(StepRow(Frame))

EndRow == pc = "endrow" /\ Commit(StepEndRow(Frame))

EndRows == pc = "endrows" /\ Commit(StepEndRows(Frame))

Build == pc = "build" /\ Commit(StepBuild(Frame))

Return == pc = "verify" /\ Commit(StepReturn(Frame))

\* Grid.to_zinc() on the Grid that read returned
ToZinc ==
    /\ pc = "done"
    /\ result # NoGrid
    /\ zinc' = to_zinc(result)
    /\ pc' = "emitted"
    /\ UNCHANGED <<tokenizer, cur, peek, gb, num_cols, handed, grid, result, raised, where,
                   closed, stream, cell>>

\* the stream begins to fail under the reader: every read from now on raises
ReadFails ==
    /\ pc \notin {"done", "hang", "emitted"}
    /\ tokenizer.failAt = Never(tokenizer.text)
    /\ tokenizer' = [tokenizer EXCEPT !.failAt = tokenizer.pos]
    /\ UNCHANGED <<pc, cur, peek, gb, num_cols, handed, grid, result, raised, where,
                   closed, zinc, stream, cell>>

Next ==
    \/ Open
    \/ ParseVer
    \/ ParseMeta
    \/ ParseCol
    \/ EndCols
    \/ ParseRow
    \/ EndRow
    \/ EndRows
    \/ Build
    \/ Return
    \/ ToZinc
    \/ ReadFails

Spec == Init /\ [][Next]_vars

\* ------------------------------------------------------------------------
\* tokenize(s), and the parse of the cell value a text begins with
\* ------------------------------------------------------------------------

\* dtypes.POS_INF, NEG_INF = Number(float("inf")), NAN
POS_INF == Number(FloatInf, FALSE, <<>>)
NEG_INF == Number(FloatInf, FALSE, <<>>)
NAN == Number(FloatNaN, FALSE, <<>>)

\* the reserved words, and the negative infinity
ReservedCells ==
    {<<"T">>,    \* T
     <<"F">>,    \* F
     <<"N">>,    \* N
     <<"N", "A">>,    \* NA
     <<"M">>,    \* M
     <<"R">>,    \* R
     <<"I", "N", "F">>,    \* INF
     <<"N", "a", "N">>,    \* NaN
     <<"-", "I", "N", "F">>}    \* -INF

\* ISO datetimes
Instants ==
    {<<"2", "0", "2", "0", "-", "0", "5", "-", "1", "7", "T", "2", "3", ":", "4", "7", ":", "0", "8", "-", "0", "7", ":", "0", "0">>,    \* 2020-05-17T23:47:08-07:00
     <<"2", "0", "2", "0", "-", "0", "1", "-", "0", "1", "T", "0", "0", ":", "0", "0", ":", "0", "0", "Z">>}    \* 2020-01-01T00:00:00Z

\* timezone words
TzWords ==
    {<<"L", "o", "s", "_", "A", "n", "g", "e", "l", "e", "s">>,    \* Los_Angeles
     <<"U", "T", "C">>,    \* UTC
     <<"G", "M", "T">>,    \* GMT
     <<"G", "M", "T", "-", "1", "0">>,    \* GMT-10
     <<"G", "M", "T", "+", "1">>,    \* GMT+1
     <<"G", "M", "T", "-", "1", "0", "x">>}    \* GMT-10x

\* what follows a timezone word
TzRests ==
    {<<>>,    \* (empty)
     <<",">>,    \* ,
     <<",", "F">>,    \* ,F
     <<"\n">>,    \* \n
     <<" ", "a">>}    \*  a

\* what follows a datetime without a timezone word
NoTzRests ==
    {<<>>,    \* (empty)
     <<" ", "h", "i", "s">>,    \*  his
     <<",">>,    \* ,
     <<",", "1">>,    \* ,1
     <<",", "T">>,    \* ,T
     <<",", "\"", "x", "\"">>,    \* ,"x"
     <<"\n">>}    \* \n

\* refs with and without a display name
RefTexts ==
    {<<"@", "a">>,    \* @a
     <<"@", "a", " ", "\"", "b", "\"">>,    \* @a "b"
     <<"@", "a", " ", "b">>,    \* @a b
     <<"@", "a", " ", "\"", "b", "\"", " ", "c">>,    \* @a "b" c
     <<"@", "a", " ", " ", "\"", "b", "\"">>,    \* @a  "b"
     <<"@", "a", ",", "1">>,    \* @a,1
     <<"@", "p", ":", "q", "-", "1", ".", "r", "~", "s", "_", "t", " ", "\"", "B", " ", "O", "n", "e", "\"">>,    \* @p:q-1.r~s_t "B One"
     <<"@", "a", " ", "\"", "\"">>,    \* @a ""
     <<"@", "a", " ", "\"", "b", "\\", "\"", "\"">>,    \* @a "b\\""
     <<"@", "a", " ", "\"", "b", "\\", "n", "\"">>,    \* @a "b\\n"
     <<"@", "a", " ", "T">>}    \* @a T

\* numbers with and without a unit
NumTexts ==
    {<<"5">>,    \* 5
     <<"6", "8", ".", "5", "5", "3", "U00B0", "F">>,    \* 68.553°F
     <<"5", "%">>,    \* 5%
     <<"-", "3", ".", "5", "$">>,    \* -3.5$
     <<"5", "k", "W">>,    \* 5kW
     <<"1", "/", "h">>,    \* 1/h
     <<"5", "U0080">>,    \* 5\x80
     <<"1", "2">>,    \* 12
     <<"0", ".", "5">>,    \* 0.5
     <<"5", ",", "1">>}    \* 5,1

\* strings with and without escapes, closed and not
StrTexts ==
    {<<"\"", "a", "b", "c", "\"">>,    \* "abc"
     <<"\"", "\"">>,    \* ""
     <<"\"", "a", "\\", "n", "b", "\"">>,    \* "a\\nb"
     <<"\"", "\\", "b", "\\", "f", "\\", "r", "\\", "t", "\"">>,    \* "\\b\\f\\r\\t"
     <<"\"", "\\", "\"", "\\", "$", "\\", "'", "\\", "U0060", "\\", "\\", "\"">>,    \* "\\"\\$\\'\\`\\\\"
     <<"\"", "\\", "u", "0", "0", "4", "1", "\"">>,    \* "\\u0041"
     <<"\"", "x", "\\", "u", "0", "0", "b", "0", "y", "\"">>,    \* "x\\u00b0y"
     <<"\"", "\\", "x", "\"">>,    \* "\\x"
     <<"\"", "\\", "a", "\"">>,    \* "\\a"
     <<"\"", "\\", "0", "\"">>,    \* "\\0"
     <<"\"", "a", "b", "c">>,    \* "abc
     <<"\"", "a", "\"", " ", "b">>,    \* "a" b
     <<"\"", "a", "\\", "\"">>,    \* "a\\"
     <<"\"", "\\", "t", "x", "\\", "u", "0", "0", "4", "1", "\"">>}    \* "\\tx\\u0041"

\* texts of several lines, with blank lines and each kind of line break
LineTexts ==
    {<<>>,    \* (empty)
     <<"a">>,    \* a
     <<"a", "\n">>,    \* a\n
     <<"a", "\n", "\n">>,    \* a\n\n
     <<"t", "s", ",", "v", "a", "l", "\n", "2", "0", "2", "0", "-", "0", "5", "-", "1", "7", "T", "2", "3", ":", "4", "7", ":", "0", "8", "-", "0", "7", ":", "0", "0", " ", "L", "o", "s", "_", "A", "n", "g", "e", "l", "e", "s", ",", "\n", "\n">>,    \* ts,val\n2020-05-17T23:47:08-07:00 Los_Angeles,\n\n
     <<"a", "\n", "\n", "b">>,    \* a\n\nb
     <<"\n", "a">>,    \* \na
     <<"a", "\r", "\n", "b">>,    \* a\r\nb
     <<"a", "\r", "b">>,    \* a\rb
     <<"a", "\n", "\r", "\n">>,    \* a\n\r\n
     <<" ", "\t", "U00A0", "a">>,    \*  \t\xa0a
     <<"a", "\n", "\n", "\n">>}    \* a\n\n\n

\* hexadecimal literals
HexTexts ==
    {<<"0", "x", "_">>,    \* 0x_
     <<"0", "x", "1", "F">>,    \* 0x1F
     <<"0", "x">>,    \* 0x
     <<"0", "x", "1", "_", "0">>,    \* 0x1_0
     <<"0", "x", "1", "F", ",", "2">>}    \* 0x1F,2

\* a datetime, one space and a timezone word, and what follows
TzTexts == {i \o <<" ">> \o z \o r : i \in Instants, z \in TzWords, r \in TzRests}

\* a datetime and what follows, no timezone word
NoTzTexts == {i \o r : i \in Instants, r \in NoTzRests}

\* number-like lexemes: dates, times, datetimes and numbers, by their dashes and colons
KindTexts ==
    {<<"2", "0", "2", "0", "-", "0", "1", "-", "0", "1">>,    \* 2020-01-01
     <<"1", "2", ":", "3", "0">>,    \* 12:30
     <<"1", "2", ":", "3", "0", ":", "0", "5">>,    \* 12:30:05
     <<"9", ":", "0", "5", " ", "U", "T", "C">>,    \* 9:05 UTC
     <<"1", "2", ":", "3", "0", " ", "U", "T", "C">>,    \* 12:30 UTC
     <<"1", "2", ":", "3", "0", "Z">>,    \* 12:30Z
     <<"1", "2", ":", "3", "0", ",", "1">>,    \* 12:30,1
     <<"1", "2", ":", "3", "0", ",", "T">>,    \* 12:30,T
     <<"1", "-", "2">>,    \* 1-2
     <<"1", ":", "2", "-", "3">>,    \* 1:2-3
     <<"1", "-", "2", "-", "3", "-", "4">>,    \* 1-2-3-4
     <<"5", "-">>,    \* 5-
     <<"1", "_", "0", "0", "0">>,    \* 1_000
     <<"1", "e", "5">>,    \* 1e5
     <<"1", ".", "5", "E", "-", "3">>,    \* 1.5E-3
     <<"5", "_", "m">>,    \* 5_m
     <<"1", ".", "2", ".", "3">>,    \* 1.2.3
     <<"-", "4">>,    \* -4
     <<"1", "e", "9", "9", "9">>}    \* 1e999

\* strings with a raw line terminator before the closing quote, closed and not
RawLineStrs ==
    {<<"\"", "a", "\n", "b", "\"">>,    \* "a\nb"
     <<"\"", "a", "\r", "b", "\"">>,    \* "a\rb"
     <<"\"", "\n", "\"">>,    \* "\n"
     <<"\"", "a", "\n">>,    \* "a\n
     <<"\"", "a", "\r", "\n", "b", "\"", ",", "1">>}    \* "a\r\nb",1

\* coordinates, well-formed and not
CoordTexts ==
    {<<"C", "(", "3", "7", ".", "4", ",", "-", "1", "2", "2", ".", "1", ")">>,    \* C(37.4,-122.1)
     <<"C", "(", "3", "7", ".", "4", ",", " ", "-", "1", "2", "2", ".", "1", ")">>,    \* C(37.4, -122.1)
     <<"C", "(", "1", ",", "2", ")">>,    \* C(1,2)
     <<"C", "(", "-", "1", ".", "5", ",", ".", "5", ")">>,    \* C(-1.5,.5)
     <<"C", "(", ",", ")">>,    \* C(,)
     <<"C", "(", "-", ",", ".", ")">>,    \* C(-,.)
     <<"C", "(", "1", ",", ")">>,    \* C(1,)
     <<"C", "(", "1", ".", "2", ".", "3", ",", "4", ")">>,    \* C(1.2.3,4)
     <<"C", "(", "1", "e", "5", ",", "2", ")">>,    \* C(1e5,2)
     <<"C", "(", "1", ",", " ", " ", "2", ")">>,    \* C(1,  2)
     <<"C", "(", "1", " ", ",", "2", ")">>,    \* C(1 ,2)
     <<"C", "(", "1", ",", "2">>,    \* C(1,2
     <<"C", "(", "1", ";", "2", ")">>,    \* C(1;2)
     <<"C", "(", "1", ",", "2", ")", ",", "3">>}    \* C(1,2),3

\* the strings tokenize is called on
TokTexts ==
    ReservedCells \cup TzTexts \cup NoTzTexts \cup RefTexts \cup NumTexts \cup StrTexts
    \cup LineTexts \cup HexTexts \cup KindTexts \cup RawLineStrs
    \cup CoordTexts

\* one turn of tokenize_buf's loop: next(tkzr), yield tok, stop after EOF
tokenize_buf(t, yielded) ==
    Bind(NextToken(t), LAMBDA r :
    IF r.err = "Hang"
    THEN [pc |-> "hang", tz |-> r.t, stream |-> yielded, raised |-> "none"]
    ELSE IF r.err # "none"
    THEN [pc |-> "scanned", tz |-> r.t, stream |-> yielded, raised |-> r.err]
    ELSE [pc |-> IF r.tok = TokEOF THEN "scanned" ELSE "scan", tz |-> r.t,
          stream |-> Append(yielded, r.tok), raised |-> "none"])

\* ZincParser(ZincTokenizer(buf))._parse_val(): the value the text begins with
ParseCell(text) ==
    Bind(Consume([tz |-> ZincTokenizer(text, Never(text)), cur |-> NoneToken,
                  peek |-> NoneToken]), LAMBDA c1 :
    IF c1.err # "none" THEN [val |-> PyNone, err |-> c1.err] ELSE
    Bind(Consume(c1.p), LAMBDA c2 :
    IF c2.err # "none" THEN [val |-> PyNone, err |-> c2.err] ELSE
    Bind(_parse_val(c2.p), LAMBDA v : [val |-> v.val, err |-> v.err])))

\* tokenize(s): a tokenizer over the string, nothing yielded yet
TokInit ==
    \E text \in TokTexts :
        LET m == NewFrame(text, Never(text)) IN
        /\ pc = "scan"
        /\ tokenizer = ZincTokenizer(text, Never(text))
        /\ cur = m.p.cur
        /\ peek = m.p.peek
        /\ gb = m.gb
        /\ num_cols = m.num_cols
        /\ handed = m.handed
        /\ grid = m.grid
        /\ result = m.result
        /\ raised = m.raised
        /\ where = m.where
        /\ closed = m.closed
        /\ zinc = NoZinc
        /\ stream = <<>>
        /\ cell = NoCell

\* the consumer of tokenize(s) asks for the next token
TokenizeNext ==
    /\ pc = "scan"
    /\ LET m == tokenize_buf(tokenizer, stream) IN
        /\ pc' = m.pc
        /\ tokenizer' = m.tz
        /\ stream' = m.stream
        /\ raised' = m.raised
    /\ UNCHANGED <<cur, peek, gb, num_cols, handed, grid, result, where, closed, zinc, cell>>

\* after the token stream has ended, the same string is parsed as a cell value
ParseVal ==
    /\ pc = "scanned"
    /\ cell' = ParseCell(tokenizer.text)
    /\ pc' = IF cell'.err = "Hang" THEN "hang" ELSE "parsed"
    /\ UNCHANGED <<tokenizer, cur, peek, gb, num_cols, handed, grid, result, raised, where,
                   closed, zinc, stream>>

TokNext ==
    \/ TokenizeNext
    \/ ParseVal

TokSpec == TokInit /\ [][TokNext]_vars

\* ------------------------------------------------------------------------
\* What the properties read off a state and off the text
\* ------------------------------------------------------------------------

\* the text of the stream
Text == tokenizer.text

\* a read of the stream has raised
Failed == tokenizer.failed

\* read has returned or raised
Finished == pc \in {"done", "emitted"}

\* the characters before the first newline
RECURSIVE FirstLine(_)
FirstLine(s) ==
    IF s = <<>> \/ Head(s) = "\n" THEN <<>> ELSE <<Head(s)>> \o FirstLine(Tail(s))

\* the lines of s, split at its newlines
RECURSIVE SplitLines(_)
SplitLines(s) ==
    Bind(FirstLine(s), LAMBDA l :
    IF Len(l) = Len(s) THEN <<l>> ELSE <<l>> \o SplitLines(SubSeq(s, Len(l) + 2, Len(s))))

\* line k of s, empty when s has fewer lines
LineAt(s, k) == Bind(SplitLines(s), LAMBDA ls : IF k <= Len(ls) THEN ls[k] ELSE <<>>)

\* the cells a line has: one more than its commas
Cells(line) == Cardinality({i \in 1..Len(line) : line[i] = ","}) + 1

\* what the k-th call of the tokenizer gives on a stream that does not fail
RECURSIVE ScanFrom(_, _)
ScanFrom(t, k) ==
    IF k <= 1 THEN NextToken(t) ELSE Then(NextToken(t), LAMBDA r : ScanFrom(r.t, k - 1))

TokenAt(s, k) == ScanFrom(ZincTokenizer(s, Never(s)), k)

\* the tokenizer gives a token on each of its first k calls
Delivered(s, k) ==
    \A j \in 1..k : Bind(TokenAt(s, j), LAMBDA r : r.err = "none" /\ r.tok # NoneToken)

\* 2 or 3 when s begins with ver, a colon and the string "2.0" or "3.0", else 0
HeaderVersion(s) ==
    IF /\ Delivered(s, 3)
       /\ TokenAt(s, 1).tok = Token("ID", VER)
       /\ TokenAt(s, 2).tok = TokCOLON
       /\ TokenAt(s, 3).tok.ttype = "STRING"
    THEN Bind(TokenAt(s, 3).tok.val, LAMBDA v :
         IF v = <<"2", ".", "0">> THEN 2 ELSE IF v = <<"3", ".", "0">> THEN 3 ELSE 0)
    ELSE 0

\* the number of tokens of the first line of s, the newline or end of file
\* that ends it counted in
RECURSIVE HeadTokensFrom(_, _)
HeadTokensFrom(t, n) ==
    Bind(NextToken(t), LAMBDA r :
    IF r.err # "none" \/ r.tok \in {TokNEWLINE, TokEOF} THEN n + 1
    ELSE HeadTokensFrom(r.t, n + 1))

HeadTokens(s) == HeadTokensFrom(ZincTokenizer(s, Never(s)), 0)

\* every token of the line scans
LineScans(line) == TokenAt(line, HeadTokens(line)).err = "none"

\* s has a good first line, a column line that declares columns, and a row
\* with more cells than the column line has names; the rows before it scan
\* and have the cells the column line declares
ExtraRow(s) ==
    /\ FirstLine(s) \in GoodHeads
    /\ LineAt(s, 2) \in ColLines
    /\ \E i \in 3..Len(SplitLines(s)) :
          /\ \A j \in 3..(i - 1) :
                Bind(LineAt(s, j), LAMBDA l :
                     l # <<>> /\ LineScans(l) /\ Cells(l) = Cells(LineAt(s, 2)))
          /\ Cells(LineAt(s, i)) > Cells(LineAt(s, 2))

\* the empty cells of a row line: before a comma that starts the line or
\* follows a comma, and after a comma that ends the line
EmptyCells(line) ==
    Cardinality({k \in 1..Len(line) : line[k] = "," /\ (k = 1 \/ line[k - 1] = ",")})
    + (IF line # <<>> /\ line[Len(line)] = "," THEN 1 ELSE 0)

\* the cells of a row that are None
NoneCells(row) == Cardinality({j \in 1..Len(row) : row[j] = PyNone})

\* two grids with the same version, grid_info, column_info and data
SameGrid(g, h) ==
    /\ g.version = h.version
    /\ g.has_info = h.has_info
    /\ g.grid_info = h.grid_info
    /\ g.column_info = h.column_info
    /\ g.data = h.data

\* ------------------------------------------------------------------------
\* C1 .. C5: round trips, whole-stream parsing, stream failures, error kinds
\* ------------------------------------------------------------------------

\* C1: for every Grid that read returns, to_zinc gives a text, and reading
\* that text again returns a Grid with the same version, grid_info,
\* column_info and data.
C1_RoundTrip ==
    pc = "emitted" =>
        /\ zinc.err = "none"
        /\ Bind(read(zinc.text, Never(zinc.text)), LAMBDA r :
                r.raised = "none" /\ r.result # NoGrid /\ SameGrid(r.result, result))

\* C2: reading a text in the emitter's canonical form returns a Grid, and
\* to_zinc of that Grid gives the text back character for character.
C2_CanonicalText ==
    (Text \in CanonicalTexts /\ ~Failed) =>
        /\ pc = "done" => raised = "none" /\ result # NoGrid
        /\ pc = "emitted" => zinc.err = "none" /\ zinc.text = Text

\* C3: a Grid is returned only when the parser stands at the Eof token with
\* the whole stream read and nothing raised, it is the Grid that build gave,
\* and once something is raised no Grid is returned.
C3_WholeStream ==
    /\ result # NoGrid =>
          /\ cur = TokEOF
          /\ raised = "none"
          /\ result = grid
          /\ Finished
          /\ ~Failed => tokenizer.pos = Len(Text)
    /\ raised # "none" => result = NoGrid /\ pc = "done"

\* C3 witness: read has returned a Grid for a text with a column line, all of
\* its characters read
C3_Witness ==
    /\ pc = "done"
    /\ result # NoGrid
    /\ ~Failed
    /\ tokenizer.pos = Len(Text)
    /\ Len(result.column_info) > 0

\* C4: when a read of the stream has failed, the call ends with an error and
\* returns no Grid.
C4_ReadFailure ==
    Failed => result = NoGrid /\ (Finished => raised # "none")

\* C5: whatever read raises is a ZincTokenizerException, a
\* ZincParseException, a ZincErrorGridException or a NotImplementedError.
C5_ErrorKinds ==
    raised \in {"none", ZTE, ZPE, "ZincErrorGridException", "NotImplementedError"}

\* ------------------------------------------------------------------------
\* C6 .. C10: the header, error grids, the column line, the width of rows
\* ------------------------------------------------------------------------

\* the builder exists only for a text that begins with ver, a colon and "2.0"
\* or "3.0", and a Grid returned has the builder's version
VersionFromHeader ==
    /\ gb.version # 0 => gb.version = HeaderVersion(Text)
    /\ result # NoGrid => result.version \in {2, 3} /\ result.version = gb.version

\* read has ended on a stream that did not fail, and the text does not begin
\* with ver, a colon and "2.0" or "3.0"
BadHeaderRead == Finished /\ ~Failed /\ HeaderVersion(Text) = 0

ErrGridRead == Finished /\ ~Failed /\ FirstLine(Text) \in ErrHeads

\* C7 as stated: a first line with the tag err makes read raise
\* ZincErrorGridException, whatever the lines after it hold.
C7_ErrAlwaysErrorGrid ==
    ErrGridRead => raised = "ZincErrorGridException" /\ result = NoGrid

\* C7 amended: a first line with the tag err makes read end without a Grid at
\* the grid meta; it raises ZincErrorGridException unless the token after the
\* first line's newline does not scan, and then it raises that scan error.
C7_ErrGrid ==
    ErrGridRead =>
        /\ result = NoGrid
        /\ where = "meta"
        /\ Bind(TokenAt(Text, HeadTokens(Text) + 1), LAMBDA r :
                raised = IF r.err = "none" THEN "ZincErrorGridException" ELSE r.err)

\* C7 witness: ZincErrorGridException was raised for a text with a column
\* line and a row after the first line
C7_Witness ==
    /\ ErrGridRead
    /\ raised = "ZincErrorGridException"
    /\ LineAt(Text, 2) \in ColLines
    /\ LineAt(Text, 3) # <<>>

\* read has ended on a stream that did not fail, for a text with a good first
\* line whose next line starts with a token that is no name: no column
ZeroColsRead ==
    /\ Finished
    /\ ~Failed
    /\ FirstLine(Text) \in GoodHeads
    /\ Bind(TokenAt(Text, HeadTokens(Text) + 1), LAMBDA r :
            r.err = "none" /\ r.tok # NoneToken /\ r.tok.ttype # "ID")

\* the rows are read, and a Grid is returned, only with a column declared
ColumnsBeforeRows ==
    (pc \in {"rows", "endrow", "endrows", "build", "verify"} \/ result # NoGrid)
        => num_cols > 0

\* C8 as stated: a column line that declares no column makes read raise
\* ZincParseException.
C8_ZeroColsParseError ==
    /\ ColumnsBeforeRows
    /\ ZeroColsRead => raised = ZPE

\* C8 amended: the rows are never reached without a column; a column line
\* that declares no column makes read raise ZincParseException, unless the
\* token after the one that starts the column line does not scan, and then
\* read raises that scan error.
C8_ZeroCols ==
    /\ ColumnsBeforeRows
    /\ ZeroColsRead =>
          /\ result = NoGrid
          /\ num_cols = 0
          /\ Bind(TokenAt(Text, HeadTokens(Text) + 2), LAMBDA r :
                  raised = IF r.err = "none" THEN ZPE ELSE r.err)

\* C8 witness: the text is the ver line and its newline alone, and read
\* raised ZincParseException after the column loop
C8_Witness ==
    /\ ZeroColsRead
    /\ Len(Text) = Len(FirstLine(Text)) + 1
    /\ raised = ZPE
    /\ where = "endcols"

C10_ExtraRowParseError ==
    (Finished /\ ~Failed /\ ExtraRow(Text)) => raised = ZPE

\* C10 amended: when the cells of a row are read and a comma follows, the
\* parser raises ZincParseException at once and returns no Grid; and a read of
\* a text with a row of more cells than declared columns never returns a Grid:
\* it ends in an error.
C10_ExtraCells ==
    [][/\ (pc = "endrow" /\ cur = TokCOMMA /\ pc' # pc) =>
             pc' = "done" /\ raised' = ZPE /\ where' = "endrow" /\ result' = NoGrid
       /\ (pc' \in {"done", "emitted"} /\ ~tokenizer'.failed /\ ExtraRow(tokenizer'.text)) =>
             raised' # "none" /\ result' = NoGrid]_vars

\* C10 witness: a row of more cells than columns was refused at the comma
\* after its last declared cell
C10_Witness ==
    /\ Finished
    /\ ~Failed
    /\ ExtraRow(Text)
    /\ raised = ZPE
    /\ where = "endrow"
    /\ cur = TokCOMMA

\* ------------------------------------------------------------------------
\* C11: the columns of the header line and the columns of the builder
\* ------------------------------------------------------------------------

\* the column names of a column line: the name that starts it and the name
\* after each comma
RECURSIVE ColumnNamesFrom(_, _, _)
ColumnNamesFrom(t, atName, names) ==
    Bind(NextToken(t), LAMBDA r :
    IF r.err # "none" \/ r.tok \in {TokNEWLINE, TokEOF, NoneToken} THEN names
    ELSE IF r.tok = TokCOMMA THEN ColumnNamesFrom(r.t, TRUE, names)
    ELSE IF atName /\ r.tok.ttype = "ID" THEN ColumnNamesFrom(r.t, FALSE, Append(names, r.tok.val))
    ELSE ColumnNamesFrom(r.t, FALSE, names))

ColumnNames(line) == ColumnNamesFrom(ZincTokenizer(line, Never(line)), TRUE, <<>>)

\* the keys of a dict, in insertion order
Keys(d) == [i \in 1..Len(d) |-> d[i][1]]

\* C11: once the column line is read, the builder holds one column for each
\* column spec of the header line, under the header's names and in the
\* header's order, a Grid returned has these columns, and the i-th cell of
\* every row handed to the builder is stored under the i-th column.
C11_ColumnsOneToOne ==
    /\ (pc \in {"rows", "endrow", "endrows", "build", "verify"} /\ ~Failed) =>
          /\ Len(gb.cols) = num_cols
          /\ Keys(gb.cols) = ColumnNames(LineAt(Text, 2))
          /\ Keys(gb.col_meta) = ColumnNames(LineAt(Text, 2))
    /\ (result # NoGrid /\ ~Failed) =>
          Keys(result.column_info) = ColumnNames(LineAt(Text, 2))
    /\ \A r \in 1..Len(handed) : \A i \in 1..num_cols :
          /\ i <= Len(gb.cols)
          /\ r <= Len(gb.cols[i][2])
          /\ gb.cols[i][2][r] = handed[r][i]

\* ------------------------------------------------------------------------
\* C12, C13: reserved words in cell position
\* ------------------------------------------------------------------------

\* the scalar each reserved word stands for
ReservedScalar(w) ==
    CASE w = <<"T">> -> BOOL_TRUE
      [] w = <<"F">> -> BOOL_FALSE
      [] w = <<"N">> -> NULL
      [] w = <<"N", "A">> -> NA
      [] w = <<"M">> -> MARKER
      [] w = <<"R">> -> REMOVE
      [] w = <<"I", "N", "F">> -> Number(FloatInf, FALSE, <<>>)
      [] w = <<"N", "a", "N">> -> Number(FloatNaN, FALSE, <<>>)

MinusInf == <<"-", "I", "N", "F">>

\* C12: each reserved word scans as one Reserved token and, parsed as a cell
\* value, gives its scalar: T True, F False, N Null, NA Na, M Marker,
\* R Remove, INF the Number +infinity and NaN the Number NaN.
C12_ReservedValues ==
    (pc = "parsed" /\ Text \in ReservedCells \ {MinusInf}) =>
        /\ raised = "none"
        /\ stream = <<Token("RESERVED", Text), TokEOF>>
        /\ cell = [val |-> ReservedScalar(Text), err |-> "none"]

\* C13: a '-' immediately followed by INF parses to the Number -infinity, not
\* to an error, and NEG_INF is a value of its own, distinct from POS_INF.
C13_NegativeInfinity ==
    (pc = "parsed" /\ Text = MinusInf) =>
        /\ raised = "none"
        /\ cell = [val |-> Number(FloatNegInf, FALSE, <<>>), err |-> "none"]
        /\ NEG_INF = Number(FloatNegInf, FALSE, <<>>)
        /\ NEG_INF # POS_INF

\* ------------------------------------------------------------------------
\* C14..C18: the tokens of datetimes, refs, numbers and strings
\* ------------------------------------------------------------------------

\* the tokens tokenize yields for a text, and what it raised
RECURSIVE TokensFrom(_, _)
TokensFrom(t, toks) ==
    Bind(NextToken(t), LAMBDA r :
    IF r.err # "none" THEN [toks |-> toks, err |-> r.err]
    ELSE IF r.tok = TokEOF THEN [toks |-> Append(toks, r.tok), err |-> "none"]
    ELSE TokensFrom(r.t, Append(toks, r.tok)))

Tokens(text) == TokensFrom(ZincTokenizer(text, Never(text)), <<>>)

\* the text after its first n characters
Drop(s, n) == SubSeq(s, n + 1, Len(s))

\* the end of the run of characters of `class` that starts at offset i of s
RECURSIVE RunEnd(_, _, _)
RunEnd(s, i, class) ==
    IF i <= Len(s) /\ s[i] \in class THEN RunEnd(s, i + 1, class) ELSE i - 1

IdPartChars == LowerLetters \cup UpperLetters \cup Digits \cup {"_"}

\* the end of the timezone word that follows the space at offset sp: a run of
\* letters, digits and '_', and when the run ends in GMT and a sign follows,
\* the sign and the digits after it
TzWordEnd(s, sp) ==
    Bind(RunEnd(s, sp + 1, IdPartChars), LAMBDA e :
    IF /\ e - sp >= 3
       /\ SubSeq(s, e - 2, e) = <<"G", "M", "T">>
       /\ e < Len(s)
       /\ s[e + 1] \in {"+", "-"}
    THEN RunEnd(s, e + 2, Digits)
    ELSE e)

\* C14: a datetime followed by one space and a word that starts with an
\* uppercase letter is scanned as one Datetime token `<instant> <tz>`, the
\* timezone word being the run of letters, digits and '_' after the space,
\* extended by a sign and digits when the run ends in GMT; what follows the
\* timezone word is tokenized as it would be on its own.
C14_DatetimeWithTz ==
    (pc \in {"scanned", "parsed"} /\ Text \in TzTexts) =>
        Bind(TzWordEnd(Text, FirstSpace(Text)), LAMBDA e :
        Bind(Tokens(Drop(Text, e)), LAMBDA rest :
        /\ stream = <<Token("DATETIME", SubSeq(Text, 1, e))>> \o rest.toks
        /\ raised = rest.err))

InstantChars == Digits \cup {"-", ":", "+", ".", "T", "Z"}

\* C15: a datetime that no space and timezone word follow is scanned as a
\* Datetime token holding only the instant, whatever follows it (the end of
\* the input, a space and a lowercase tag, a comma and a cell value, a
\* newline), what follows is tokenized as it would be on its own, and the
\* datetime parses to a Datetime with tz = None.
C15_DatetimeWithoutTz ==
    (pc = "parsed" /\ Text \in NoTzTexts) =>
        Bind(RunEnd(Text, 1, InstantChars), LAMBDA e :
        Bind(Tokens(Drop(Text, e)), LAMBDA rest :
        /\ stream = <<Token("DATETIME", SubSeq(Text, 1, e))>> \o rest.toks
        /\ raised = rest.err
        /\ cell = [val |-> Datetime(SubSeq(Text, 1, e), FALSE, <<>>), err |-> "none"]))

RefChars == LowerLetters \cup UpperLetters \cup Digits \cup {"_", ":", "-", ".", "~"}

\* the offset of the first unescaped '"' of s at or after offset i
RECURSIVE ClosingQuote(_, _)
ClosingQuote(s, i) ==
    IF i > Len(s) THEN i
    ELSE IF s[i] = "\\" THEN ClosingQuote(s, i + 2)
    ELSE IF s[i] = "\"" THEN i
    ELSE ClosingQuote(s, i + 1)

\* a Ref value as the properties state it
RefValue(uid, hasDisplay, display) ==
    [k |-> "Ref", uid |-> uid, hasDisplay |-> hasDisplay, display_name |-> display]

\* C16: `@uid`, one space and a double-quoted string are scanned as one Ref
\* token with the lexeme `uid "display"`, which parses to Ref(uid, display),
\* the display name being the text between the surrounding quotes; `@uid`
\* followed by anything else ends where the uid ends and parses to a Ref
\* without display name.
C16_RefDisplayName ==
    (pc = "parsed" /\ Text \in RefTexts) =>
        Bind(RunEnd(Text, 2, RefChars), LAMBDA u :
        IF u + 2 <= Len(Text) /\ Text[u + 1] = " " /\ Text[u + 2] = "\""
        THEN Bind(ClosingQuote(Text, u + 3), LAMBDA q :
             /\ stream = <<Token("REF", SubSeq(Text, 2, q))>> \o Tokens(Drop(Text, q)).toks
             /\ cell = [val |-> RefValue(SubSeq(Text, 2, u), TRUE, SubSeq(Text, u + 3, q - 1)),
                        err |-> "none"])
        ELSE /\ stream = <<Token("REF", SubSeq(Text, 2, u))>> \o Tokens(Drop(Text, u)).toks
             /\ cell = [val |-> RefValue(SubSeq(Text, 2, u), FALSE, <<>>), err |-> "none"])

\* the characters that start a unit: a letter, '%', '$', '/' and every
\* character with a codepoint above 127
UnitChars ==
    LowerLetters \cup UpperLetters \cup {"%", "$", "/"}
    \cup {c \in {"U0080", "U00A0", "U00B0", "UFFFD"} : Ord(c) > 127}

\* the offset in s of its first unit character, 0 when it has none
FirstUnit(s) ==
    IF \E i \in 1..Len(s) : s[i] \in UnitChars
    THEN (CHOOSE i \in 1..Len(s) :
             s[i] \in UnitChars /\ \A j \in 1..(i - 1) : s[j] \notin UnitChars) - 1
    ELSE 0

\* C17: the token of a number literal carries as unit_index the offset of the
\* first unit character of the lexeme, 0 when there is none, and parses to
\* the Number whose value is that of lexeme[:unit_index] and whose unit is
\* lexeme[unit_index:], the whole lexeme and no unit when unit_index is 0.
C17_UnitIndex ==
    (pc = "parsed" /\ Text \in NumTexts) =>
        Bind(RunEnd(Text, 1, UnitChars \cup Digits \cup {"-", "."}), LAMBDA e :
        Bind(SubSeq(Text, 1, e), LAMBDA lexeme :
        Bind(FirstUnit(lexeme), LAMBDA ui :
        Bind(Float(IF ui > 0 THEN SubSeq(lexeme, 1, ui) ELSE lexeme), LAMBDA qty :
        /\ stream = <<NumberToken(lexeme, ui)>> \o Tokens(Drop(Text, e)).toks
        /\ raised = "none"
        /\ qty.ok
        /\ cell = [val |-> Number([m |-> qty.m, e |-> qty.e], ui > 0,
                                  IF ui > 0 THEN Drop(lexeme, ui) ELSE <<>>),
                   err |-> "none"]))))

PassThroughChars == {"b", "f", "n", "r", "t", "\"", "$", "'", BACKTICK, "\\"}

\* the code of four hexadecimal digits at offsets i..i+3 of s
Hex4(s, i) ==
    HexVal(s[i]) * 4096 + HexVal(s[i + 1]) * 256 + HexVal(s[i + 2]) * 16 + HexVal(s[i + 3])

\* the lexeme of the string whose content starts at offset i of s: up to the
\* next unescaped '"', a pass-through escape kept as its two characters and
\* \uXXXX replaced by the character; ok is FALSE for any other escape and for
\* a string that is not closed
RECURSIVE StringLexeme(_, _, _)
StringLexeme(s, i, lexeme) ==
    IF i > Len(s) THEN [ok |-> FALSE, lexeme |-> lexeme, end |-> i]
    ELSE IF s[i] = "\"" THEN [ok |-> TRUE, lexeme |-> lexeme, end |-> i]
    ELSE IF s[i] # "\\" THEN StringLexeme(s, i + 1, Append(lexeme, s[i]))
    ELSE IF i + 1 <= Len(s) /\ s[i + 1] \in PassThroughChars
         THEN StringLexeme(s, i + 2, lexeme \o <<"\\", s[i + 1]>>)
    ELSE IF /\ i + 5 <= Len(s)
            /\ s[i + 1] = "u"
            /\ \A j \in (i + 2)..(i + 5) : s[j] \in HexDigits
         THEN StringLexeme(s, i + 6, Append(lexeme, Chr(Hex4(s, i + 2))))
    ELSE [ok |-> FALSE, lexeme |-> lexeme, end |-> i]

Tokenized == pc \in {"scanned", "parsed"} /\ raised = "none"

\* the offsets of s from i on that lie outside string literals; inside a
\* literal a backslash takes the character after it along
RECURSIVE OutsideStrings(_, _, _)
OutsideStrings(s, i, inside) ==
    IF i > Len(s) THEN {}
    ELSE IF inside
    THEN (IF s[i] = "\\" THEN OutsideStrings(s, i + 2, TRUE)
          ELSE OutsideStrings(s, i + 1, s[i] # "\""))
    ELSE (IF s[i] = "\"" THEN {} ELSE {i}) \cup OutsideStrings(s, i + 1, s[i] = "\"")

\* the line breaks of a text outside its string literals: each \n, and each
\* \r that no \n follows
LineBreaks(s) ==
    Cardinality({i \in OutsideStrings(s, 1, FALSE) :
        s[i] = "\n" \/ (s[i] = "\r" /\ ~(i < Len(s) /\ s[i + 1] = "\n"))})

NewlinesOf(toks) == Cardinality({i \in 1..Len(toks) : toks[i] = TokNEWLINE})

\* the stream ends with Eof and has no other Eof
EofLastOnly ==
    /\ stream # <<>>
    /\ stream[Len(stream)] = TokEOF
    /\ \A i \in 1..(Len(stream) - 1) : stream[i].ttype # "EOF"

\* C19 as stated: the last token of every stream is Eof, Eof occurs nowhere
\* else, and every Newline token comes after a token that is not a Newline,
\* except the second Newline of a pair that ends the stream.
C19_NewlineAfterContent ==
    Tokenized =>
        /\ EofLastOnly
        /\ \A i \in 1..Len(stream) : stream[i] = TokNEWLINE =>
              \/ i > 1 /\ stream[i - 1] # TokNEWLINE
              \/ /\ i = Len(stream) - 1
                 /\ i >= 3
                 /\ stream[i - 1] = TokNEWLINE
                 /\ stream[i - 2] # TokNEWLINE

\* C19: every stream that tokenize yields to its end has Eof as its last
\* token and nowhere else, and one Newline token for each line break of the
\* text (\n, \r or \r\n), whatever comes before the line break.
C19_EofAndNewlines ==
    Tokenized =>
        /\ EofLastOnly
        /\ NewlinesOf(stream) = LineBreaks(Text)

\* a blank line inside the text: two Newline tokens in a row, and more tokens
\* after them
C19_Witness ==
    /\ Tokenized
    /\ Text = <<"a", "\n", "\n", "b">>
    /\ stream = <<Token("ID", <<"a">>), TokNEWLINE, TokNEWLINE, Token("ID", <<"b">>), TokEOF>>

\* C20: every call of next() returns a token or raises after finitely many
\* steps, so that tokenize and the parse of a value end with a result or an
\* error on every text, a hexadecimal literal included: no call enters a
\* loop that it never leaves.
C20_NextTerminates == pc # "hang"

\* ------------------------------------------------------------------------
\* C21: the stream is released on every exit path
\* ------------------------------------------------------------------------

\* C21: when read ends, by returning a Grid, by an error raised while
\* parsing, or by an error raised while tokenizer and parser are being
\* constructed, the input stream has been closed.
C21_ClosedOnExit == Finished => closed

\* read has ended with an error raised while the parser was being constructed
C21_Witness ==
    /\ Finished
    /\ ~Failed
    /\ where = "open"
    /\ raised = ZTE
    /\ closed

\* a tag as line 1 shows it: the name alone for a Marker, name:"value" for a
\* Str, name:str(value) for any other scalar
TagText(k, v) ==
    CASE v = MARKER -> k
      [] v # MARKER /\ v.k = "String" -> k \o <<":", "\"">> \o v.value \o <<"\"">>
      [] OTHER -> k \o <<":">> \o StrOf(v)

RECURSIVE TagsText(_)

\* every tag in insertion order, each after a single space
TagsText(tags) ==
    IF tags = <<>> THEN <<>>
    ELSE <<" ">> \o TagText(tags[1][1], tags[1][2]) \o TagsText(Tail(tags))

\* C22: for every Grid that read returns, to_zinc's line 1 is ver:"<version>.0"
\* followed by the grid_info tags in insertion order, each after a single space:
\* a Marker as its name alone, a Str as name:"value", any other scalar as
\* name:str(value).
C22_FirstLine ==
    pc = "emitted" =>
        /\ result.has_info
        /\ _grid_info_str(result) = VerTag(result.version) \o TagsText(result.grid_info)

\* ------------------------------------------------------------------------
\* C23, C24: the token of a number-like lexeme
\* ------------------------------------------------------------------------

\* what the loop of _tokenize_num has gathered when it leaves the lexeme the
\* text begins with: s, colons, dashes, unit_index, exp
Scanned(text) ==
    NumLoop(ZincTokenizer(text, Never(text)),
            [s |-> <<>>, colons |-> 0, dashes |-> 0, unit_index |-> 0, exp |-> FALSE]).n

\* the kind of token that the counters of a lexeme call for
KindOf(dashes, colons) ==
    IF dashes = 2 /\ colons = 0 THEN "DATE"
    ELSE IF dashes = 0 /\ colons >= 1 THEN "TIME"
    ELSE IF dashes >= 2 THEN "DATETIME"
    ELSE "NUMBER"

\* C23: the first token of a text that begins with a number-like lexeme is
\* always there, and it is a Date iff the lexeme has two dashes and no colon, a
\* Time iff it has no dash and a colon, a timezone word following or not, a
\* Datetime iff it has two dashes or more and is not a Date, and a Number
\* otherwise.
C23_NumberKinds ==
    (Text \in KindTexts /\ pc \in {"scanned", "parsed"}) =>
        /\ Len(stream) >= 1
        /\ stream[1] # NoneToken
        /\ Bind(Scanned(Text), LAMBDA n : stream[1].ttype = KindOf(n.dashes, n.colons))

\* a non-empty run of decimal digits
AllDigits(s) == s # <<>> /\ \A i \in 1..Len(s) : s[i] \in Digits

\* digits, or digits, a point and digits
IsMantissa(s) ==
    \/ AllDigits(s)
    \/ \E i \in 2..(Len(s) - 1) :
          s[i] = "." /\ AllDigits(SubSeq(s, 1, i - 1)) /\ AllDigits(SubSeq(s, i + 1, Len(s)))

\* digits after an optional sign
IsExponent(s) == AllDigits(s) \/ (s # <<>> /\ s[1] \in {"+", "-"} /\ AllDigits(Tail(s)))

\* a decimal or integer literal: an optional minus, a mantissa, and an
\* optional exponent
IsLiteral(s) ==
    Bind(IF s # <<>> /\ s[1] = "-" THEN Tail(s) ELSE s, LAMBDA u :
    \/ IsMantissa(u)
    \/ \E i \in 2..(Len(u) - 1) :
          /\ u[i] \in {"e", "E"}
          /\ IsMantissa(SubSeq(u, 1, i - 1))
          /\ IsExponent(SubSeq(u, i + 1, Len(u))))

\* lexeme[:unit_index] of a number token, the whole lexeme when unit_index is 0
NumericPortion(tok) ==
    IF tok.unit_index = 0 THEN tok.val ELSE SubSeq(tok.val, 1, tok.unit_index)

\* lexeme[unit_index:] of a number token does not begin with a digit
UnitNotDigit(tok) == tok.unit_index > 0 => tok.val[tok.unit_index + 1] \notin Digits

\* the number tokens yielded so far
NumberTokens == {i \in 1..Len(stream) : stream[i].ttype = "NUMBER"}

\* the text begins with a number token and has been parsed as a cell value
NumberCell == pc = "parsed" /\ 1 \in NumberTokens

\* C24 as stated: the numeric portion of every Number token is a well-formed
\* decimal or integer literal with a finite value, and its unit portion does
\* not begin with a digit.
C24_WellFormedNumbers ==
    /\ \A i \in NumberTokens : IsLiteral(NumericPortion(stream[i])) /\ UnitNotDigit(stream[i])
    /\ (NumberCell /\ cell.err = "none") => cell.val.value \notin {FloatInf, FloatNegInf}

\* C24: the unit portion of every Number token does not begin with a digit,
\* a Number token is parsed to a Number only when its numeric portion is a
\* decimal, integer or exponent literal, and on any other numeric portion
\* _parse_val raises ZincParseException.
C24_NumbersParseOrRaise ==
    /\ \A i \in NumberTokens : UnitNotDigit(stream[i])
    /\ (NumberCell /\ cell.err = "none") =>
          IsLiteral(NumericPortion(stream[1])) /\ cell.val.k = "Number"
    /\ (NumberCell /\ raised = "none" /\ ~IsLiteral(NumericPortion(stream[1]))) =>
          cell.err = "ZincParseException"

\* the token of 1-2 is a Number token, and parsing it has raised
C24_Witness ==
    /\ NumberCell
    /\ stream[1] = NumberToken(<<"1", "-", "2">>, 0)
    /\ ~IsLiteral(NumericPortion(stream[1]))
    /\ cell.err = "ZincParseException"

\* ------------------------------------------------------------------------
\* C25: line terminators inside string literals
\* ------------------------------------------------------------------------

LineTerminators == {"\n", "\r"}

\* s holds a line terminator
HasLineTerminator(s) == \E i \in 1..Len(s) : s[i] \in LineTerminators

\* the offset of the first '"' of s after its first character, 0 when none
SecondQuote(s) ==
    IF \E i \in 2..Len(s) : s[i] = "\""
    THEN CHOOSE i \in 2..Len(s) : s[i] = "\"" /\ \A j \in 2..(i - 1) : s[j] # "\""
    ELSE 0

\* C25 as stated: a line terminator before the closing quote of a string
\* literal is a scan error, and no String token holds a raw line terminator.
C25_NewlineInStringRaises ==
    /\ \A i \in 1..Len(stream) :
          stream[i].ttype = "STRING" => ~HasLineTerminator(stream[i].val)
    /\ (Text \in RawLineStrs /\ pc \in {"scanned", "parsed"}) => raised = ZTE

\* C25: a line terminator before the closing quote of a string literal is a
\* character of the string: the String token holds everything between the
\* quotes, line terminators included, and the tokens after the closing quote
\* follow it; only a string that the text ends before closing is a scan error.
C25_NewlineInStringKept ==
    (Text \in RawLineStrs /\ pc = "parsed") =>
        Bind(SecondQuote(Text), LAMBDA q :
        IF q > 0
        THEN Bind(Tokens(Drop(Text, q)), LAMBDA rest :
             /\ stream = <<Token("STRING", SubSeq(Text, 2, q - 1))>> \o rest.toks
             /\ raised = rest.err
             /\ cell = [val |-> String(SubSeq(Text, 2, q - 1)), err |-> "none"])
        ELSE /\ stream = <<>>
             /\ raised = ZTE)

\* a String token that holds a raw \r\n, and the tokens after it
C25_Witness ==
    /\ pc = "parsed"
    /\ Text \in RawLineStrs
    /\ stream = <<Token("STRING", <<"a", "\r", "\n", "b">>), TokCOMMA,
                  NumberToken(<<"1">>, 0), TokEOF>>
    /\ HasLineTerminator(stream[1].val)

\* ------------------------------------------------------------------------
\* C26: coordinates
\* ------------------------------------------------------------------------

\* an unscientific signed decimal: an optional minus, then digits with at
\* most one point among them
IsUnscientific(s) ==
    Bind(IF s # <<>> /\ s[1] = "-" THEN Tail(s) ELSE s, LAMBDA u :
    /\ \E i \in 1..Len(u) : u[i] \in Digits
    /\ \A i \in 1..Len(u) : u[i] \in Digits \cup {"."}
    /\ Cardinality({i \in 1..Len(u) : u[i] = "."}) <= 1)

\* the offset of the first c in s, 0 when there is none
FirstOf(s, c) ==
    IF \E i \in 1..Len(s) : s[i] = c
    THEN CHOOSE i \in 1..Len(s) : s[i] = c /\ \A j \in 1..(i - 1) : s[j] # c
    ELSE 0

\* s without the single space it may begin with
DropSpace(s) == IF s # <<>> /\ s[1] = " " THEN Tail(s) ELSE s

\* the coordinate a text begins with: C(, lat up to the first comma, lng up
\* to the first closing parenthesis, one space allowed before lng
CoordOf(s) ==
    Bind(FirstOf(s, ","), LAMBDA c :
    Bind(FirstOf(s, ")"), LAMBDA e :
    IF Len(s) >= 2 /\ s[1] = "C" /\ s[2] = "(" /\ c > 2 /\ e > c
    THEN [ok |-> TRUE, lat |-> SubSeq(s, 3, c - 1),
          lng |-> DropSpace(SubSeq(s, c + 1, e - 1)), end |-> e]
    ELSE [ok |-> FALSE, lat |-> <<>>, lng |-> <<>>, end |-> 0]))

\* C26: C(lat,lng), with one space allowed after the comma, is scanned as one
\* Coord token whose lexeme is C(lat,lng) without the space when lat and lng
\* are unscientific signed decimals, and is a scan error that yields no token
\* when one of them is not.
C26_CoordToken ==
    (Text \in CoordTexts /\ pc \in {"scanned", "parsed"}) =>
        Bind(CoordOf(Text), LAMBDA c :
        IF c.ok /\ IsUnscientific(c.lat) /\ IsUnscientific(c.lng)
        THEN /\ stream # <<>>
             /\ stream[1] = Token("COORD", <<"C", "(">> \o c.lat \o <<",">> \o c.lng \o <<")">>)
        ELSE /\ stream = <<>>
             /\ raised = ZTE)

\* ------------------------------------------------------------------------
\* C27, C28: the builder's rows and its index column
\* ------------------------------------------------------------------------

\* C27: every row that add_row has taken without raising has as many cells as
\* the builder has columns, and every column holds one cell of each such row:
\* no cell of a row is dropped and no column is left shorter than another.
C27_RowsFitColumns ==
    /\ \A i \in 1..Len(handed) : Len(handed[i]) = Len(gb.cols)
    /\ \A j \in 1..Len(gb.cols) : Len(gb.cols[j][2]) = Len(handed)

\* the name of the first column that the header line declares, empty when it
\* declares none
FirstColumn(text) ==
    Bind(ColumnNames(LineAt(text, 2)), LAMBDA names :
    IF names = <<>> THEN <<>> ELSE names[1])

\* C28: a Grid is built and returned only when the first column that the
\* header declares is ts; with any other first column build fails and read
\* returns no Grid.
C28_TsFirst ==
    ~Failed =>
        /\ grid # NoGrid => FirstColumn(Text) = TS
        /\ result # NoGrid => FirstColumn(Text) = TS

\* ------------------------------------------------------------------------
\* C29: str() of a Ref read back
\* ------------------------------------------------------------------------

\* C29: for every Ref that the parser makes of a cell, the text that str()
\* gives of it, @uid or @uid "display", is tokenized and parsed again to a Ref
\* with the same uid and the same display name.
C29_RefRoundTrip ==
    (pc = "parsed" /\ cell.err = "none" /\ cell.val.k = "Ref") =>
        ParseCell(StrOf(cell.val)) = [val |-> cell.val, err |-> "none"]

\* ------------------------------------------------------------------------
\* C30: the grid-level tags of a returned Grid
\* ------------------------------------------------------------------------

\* the words of a line: what its single spaces separate
RECURSIVE Words(_)
Words(line) ==
    Bind(FirstOf(line, " "), LAMBDA sp :
    IF sp = 0 THEN <<line>>
    ELSE <<SubSeq(line, 1, sp - 1)>> \o Words(Drop(line, sp)))

\* the tag a word stands for: a bare name bound to Marker, name:value bound
\* to the value
TagOf(word) ==
    Bind(FirstOf(word, ":"), LAMBDA c :
    IF c = 0 THEN <<word, MARKER>>
    ELSE <<SubSeq(word, 1, c - 1), ParseCell(Drop(word, c)).val>>)

\* the tags of the first line after ver, in the order of the line
HeaderTags(text) ==
    Bind(Tail(Words(FirstLine(text))), LAMBDA ws : [i \in 1..Len(ws) |-> TagOf(ws[i])])

\* C30: the grid_info of every Grid that read returns is a dict, empty when
\* the first line has no tag besides ver, that holds the tags of the first
\* line in the order of the line, a bare name bound to Marker, and that has
\* no key ver.
C30_GridInfo ==
    (result # NoGrid /\ ~Failed) =>
        /\ result.has_info
        /\ result.grid_info = HeaderTags(Text)
        /\ \A i \in 1..Len(result.grid_info) : result.grid_info[i][1] # <<"v", "e", "r">>

====
